---------------------------- MODULE Spec2Model ----------------------------
(***************************************************************************)
(* SonosCast: the Cast v2 virtual receiver.                                *)
(*                                                                         *)
(*   SpecFrame  the frame codec (PacketReader) of one connection           *)
(*   SpecAuth   the device-authentication handler and the signature table  *)
(*   Spec       the session engine (CastDevice) over its listener          *)
(*   SpecTrace  the session engine with the logs of intents and sends kept *)
(*              over the whole run                                         *)
(*                                                                         *)
(* Byte strings are sequences of integers.  Every byte of the model is     *)
(* below 128, so every protobuf varint and length is one byte long.        *)
(***************************************************************************)
EXTENDS Integers, Sequences, FiniteSets, TLC

VARIABLES
    \* ---- CastProtocolServer (listener) ----
    clients,         \* _clients: the ids of the live connections
    clientCounter,   \* _clientCounter
    sockState,       \* per accepted id: "open", "destroyed" (close event pending), "closed"
    listening,       \* CastProtocolServer._server is set (accepting)
    \* ---- PacketReader of connection 1 (SpecFrame) ----
    wire,            \* bytes the peer has written and the reader has not yet received
    stream,          \* the frames the peer wrote, in order
    received,        \* number of bytes handed to _onData so far
    buffer,          \* _buffer
    expectedLength,  \* _expectedLength (NoLength for null)
    delivered,       \* the messages passed to onMessage, in order
    warnings,        \* number of "Failed to decode message" log lines
    \* ---- CastDevice (session engine) ----
    server,          \* CastDevice._server is set (FALSE after stop())
    sessions,        \* _sessions: clientId -> senderId (NoSender for null)
    appRunning,      \* _appRunning
    sessionId,       \* _sessionId (the n-th uuid drawn)
    mediaStatus,     \* _mediaStatus: <<>> for null, <<record>> otherwise
    mediaRequestId,  \* _mediaRequestId
    timers,          \* pending setTimeout callbacks of LOAD, in firing order
    crashed,         \* an exception reached the process (uncaught)
    today,           \* the system date, in days since 1970-01-01
    \* ---- DeviceRegistry and Bridge (identity store) ----
    registry,        \* DeviceRegistry._registry: speakerIp -> record
    file,            \* the file at REGISTRY_PATH
    nextIdentity,    \* how many uuids / certificates have been generated
    now,             \* the clock new Date() reads
    castDevices,     \* Bridge._castDevices: the speakerIps with a started receiver
    tlsOptions,      \* the options CastDevice.start last gave to CastProtocolServer
    given,           \* per key, the identity this registry object first returned
    persisted,       \* per key, the identity whose creating save succeeded
    loadedFrom,      \* the kind of file the registry object was constructed from
    deviceCalls,     \* the calls the Bridge made on the speaker for the intents of
                     \* the last step, and whether an exception left its handler
    orch,            \* SonosManager and the Bridge's receivers: the discovery scan,
                     \* the description fetches and listener starts in flight,
                     \* _nextPort and the receivers created, started and stopped
    \* ---- observation ----
    sent,            \* frames written to sockets by the last step
    emitted,         \* intents emitted by CastDevice (by the last step, or by the run)
    handled,         \* SpecTrace: the messages handled so far
    script,          \* SpecTrace: the messages the sender has still to send
    keepLog,         \* TRUE: emitted/handled cover the run; FALSE: the last step
    loads,           \* the mediaSessionId of every accepted LOAD so far, in order
    lifecycle,       \* per connection id: the connect and disconnect events emitted
                     \* for it and the sender of the last CONNECT received on it
    last             \* the last step: what was handled and the state before it

listenerVars == <<clients, clientCounter, sockState, listening>>
frameVars    == <<wire, stream, received, buffer, expectedLength, delivered, warnings>>
deviceVars   == <<server, sessions, appRunning, sessionId, mediaStatus,
                  mediaRequestId, timers, crashed>>
logVars      == <<sent, emitted, handled, script, keepLog, loads, lifecycle, last>>
regVars      == <<registry, file, nextIdentity, now, castDevices, tlsOptions,
                  given, persisted, loadedFrom, orch>>
\* the Bridge: its identity store and the calls it makes on the speaker
bridgeVars   == <<regVars, deviceCalls>>
vars == <<listenerVars, frameVars, deviceVars, today, logVars, bridgeVars>>

-----------------------------------------------------------------------------
(* Bounds *)
MaxFrames == 2

-----------------------------------------------------------------------------
(* Sequence helpers *)
Take(s, n) == SubSeq(s, 1, n)
Drop(s, n) == SubSeq(s, n + 1, Len(s))

RECURSIVE Concat(_)
Concat(ss) == IF ss = <<>> THEN <<>> ELSE Head(ss) \o Concat(Tail(ss))

IsPrefix(s, t) == Len(s) <= Len(t) /\ s = Take(t, Len(s))

-----------------------------------------------------------------------------
(* Message schema: CastMessage *)

\* A CastMessage with every field; an absent field holds its default.
CastMessage(src, dst, ns, ptype, utf8, bin) ==
    [protocolVersion |-> 0, sourceId |-> src, destinationId |-> dst,
     namespace |-> ns, payloadType |-> ptype, payloadUtf8 |-> utf8,
     payloadBinary |-> bin]

EmptyMessage == CastMessage(<<>>, <<>>, <<>>, 0, <<>>, <<>>)

\* castMessageType.encode of the message send() builds: fields 1..5, then
\* field 7 (payloadBinary) for a binary payload and field 6 (payloadUtf8)
\* otherwise.  Tag = field number * 8 + wire type (0 varint, 2 length-delimited).
EncodeCastMessage(m) ==
    <<8, m.protocolVersion>>
    \o <<18, Len(m.sourceId)>> \o m.sourceId
    \o <<26, Len(m.destinationId)>> \o m.destinationId
    \o <<34, Len(m.namespace)>> \o m.namespace
    \o <<40, m.payloadType>>
    \o (IF m.payloadType = 1
        THEN <<58, Len(m.payloadBinary)>> \o m.payloadBinary
        ELSE <<50, Len(m.payloadUtf8)>> \o m.payloadUtf8)

\* castMessageType.decode: reads tag/value pairs to the end of the body.
\* ok = FALSE stands for the exception decode throws (index out of range,
\* invalid wire type).
RECURSIVE DecodeFields(_, _)
DecodeFields(b, m) ==
    IF b = <<>> THEN [ok |-> TRUE, msg |-> m]
    ELSE LET field == b[1] \div 8
             wt    == b[1] % 8
         IN  IF field \in {1, 5}
             THEN IF Len(b) < 2 THEN [ok |-> FALSE, msg |-> m]
                  ELSE DecodeFields(Drop(b, 2),
                         IF field = 1 THEN [m EXCEPT !.protocolVersion = b[2]]
                                      ELSE [m EXCEPT !.payloadType = b[2]])
             ELSE IF field \in {2, 3, 4, 6, 7}
             THEN IF Len(b) < 2 \/ Len(b) < 2 + b[2] THEN [ok |-> FALSE, msg |-> m]
                  ELSE LET v == SubSeq(b, 3, 2 + b[2])
                       IN  DecodeFields(Drop(b, 2 + b[2]),
                             CASE field = 2 -> [m EXCEPT !.sourceId = v]
                               [] field = 3 -> [m EXCEPT !.destinationId = v]
                               [] field = 4 -> [m EXCEPT !.namespace = v]
                               [] field = 6 -> [m EXCEPT !.payloadUtf8 = v]
                               [] field = 7 -> [m EXCEPT !.payloadBinary = v])
             \* an unknown field is skipped by its wire type
             ELSE IF wt = 0
             THEN IF Len(b) < 2 THEN [ok |-> FALSE, msg |-> m]
                  ELSE DecodeFields(Drop(b, 2), m)
             ELSE IF wt = 2
             THEN IF Len(b) < 2 \/ Len(b) < 2 + b[2] THEN [ok |-> FALSE, msg |-> m]
                  ELSE DecodeFields(Drop(b, 2 + b[2]), m)
             ELSE [ok |-> FALSE, msg |-> m]

DecodeCastMessage(b) == DecodeFields(b, EmptyMessage)

-----------------------------------------------------------------------------
(* Frame codec *)

\* this._expectedLength = null
NoLength == -1

\* header.writeUInt32BE(encoded.length, 0)
WriteUInt32BE(n) ==
    <<(n \div 16777216) % 256, (n \div 65536) % 256, (n \div 256) % 256, n % 256>>

\* a reader that takes the prefix as little-endian
ReadUInt32LE(b) == b[4] * 16777216 + b[3] * 65536 + b[2] * 256 + b[1]

\* this._buffer.readUInt32BE(0)
ReadUInt32BE(b) == b[1] * 16777216 + b[2] * 65536 + b[3] * 256 + b[4]

\* send(): Buffer.concat([header, encoded])
Frame(body) == WriteUInt32BE(Len(body)) \o body

\* a catch block that also throws the unread bytes away
DecodeFailedDropsBuffer(r) ==
    [r EXCEPT !.warnings = @ + 1, !.buffer = <<>>]

\* catch (err) { log.warning(...) }: the frame is gone, nothing else changes
DecodeFailed(r) == [r EXCEPT !.warnings = @ + 1]

\* a reader that takes at most one frame out of the buffer per chunk
ReadOnce(r) ==
    IF r.expectedLength = NoLength /\ Len(r.buffer) < 4 THEN r
    ELSE LET r1 == IF r.expectedLength = NoLength
                   THEN [r EXCEPT !.expectedLength = ReadUInt32BE(r.buffer),
                                  !.buffer = Drop(r.buffer, 4)]
                   ELSE r
         IN  IF Len(r1.buffer) < r1.expectedLength THEN r1
             ELSE LET messageData == Take(r1.buffer, r1.expectedLength)
                      r2 == [r1 EXCEPT !.buffer = Drop(r1.buffer, r1.expectedLength),
                                       !.expectedLength = NoLength]
                      d  == DecodeCastMessage(messageData)
                  IN  IF d.ok THEN [r2 EXCEPT !.out = Append(@, d.msg)]
                      ELSE DecodeFailed(r2)

\* The while (true) loop of PacketReader._onData, on the reader state
\* r = [buffer, expectedLength, out, warnings]; out collects the messages
\* passed to this._onMessage.
RECURSIVE ReadLoop(_)
ReadLoop(r) ==
    IF r.expectedLength = NoLength /\ Len(r.buffer) < 4 THEN r
    ELSE LET r1 == IF r.expectedLength = NoLength
                   THEN [r EXCEPT !.expectedLength = ReadUInt32BE(r.buffer),
                                  !.buffer = Drop(r.buffer, 4)]
                   ELSE r
         IN  IF Len(r1.buffer) < r1.expectedLength THEN r1
             ELSE LET messageData == Take(r1.buffer, r1.expectedLength)
                      r2 == [r1 EXCEPT !.buffer = Drop(r1.buffer, r1.expectedLength),
                                       !.expectedLength = NoLength]
                      d  == DecodeCastMessage(messageData)
                  IN  ReadLoop(IF d.ok THEN [r2 EXCEPT !.out = Append(@, d.msg)]
                                       ELSE DecodeFailed(r2))

-----------------------------------------------------------------------------
(* The peer of SpecFrame: what it may put on the wire *)

Envelopes ==
    { CastMessage(<<115>>, <<114>>, <<104>>, 0, <<80>>, <<>>),
      CastMessage(<<115, 49>>, <<114>>, <<109>>, 0, <<>>, <<>>),
      CastMessage(<<115>>, <<114>>, <<97>>, 1, <<>>, <<10, 0>>) }

\* bodies castMessageType.decode throws on: a truncated string field, an
\* unknown field (8) of invalid wire type (7)
BadBodies == { <<18, 5, 115>>, <<71, 0>> }

\* a frame of the stream: its body and, when the body is an encoded envelope,
\* that envelope
GoodFrame(m) == [body |-> EncodeCastMessage(m), msg |-> <<m>>]
BadFrame(b)  == [body |-> b, msg |-> <<>>]
FrameChoices == { GoodFrame(m) : m \in Envelopes } \cup { BadFrame(b) : b \in BadBodies }

Streams == UNION { [1..n -> FrameChoices] : n \in 1..MaxFrames }

WireOf(st) == Concat([i \in 1..Len(st) |-> Frame(st[i].body)])

-----------------------------------------------------------------------------
(* Calendar dates.  A date is a number of days since 1970-01-01 (UTC).     *)

\* new Date('YYYY-MM-DDT00:00:00Z'), in days
DaysFromCivil(y, m, d) ==
    LET yy  == IF m <= 2 THEN y - 1 ELSE y
        era == yy \div 400
        yoe == yy - era * 400
        mp  == IF m > 2 THEN m - 3 ELSE m + 9
        doy == (153 * mp + 2) \div 5 + d - 1
        doe == yoe * 365 + yoe \div 4 - yoe \div 100 + doy
    IN  era * 146097 + doe - 719468

\* date.toISOString().slice(0, 10).replace(/-/g, ''): the 8-digit key
\* YYYYMMDD of a day, as a number
DateKey(day) ==
    LET z   == day + 719468
        era == z \div 146097
        doe == z - era * 146097
        yoe == (doe - doe \div 1460 + doe \div 36524 - doe \div 146096) \div 365
        doy == doe - (365 * yoe + yoe \div 4 - yoe \div 100)
        mp  == (5 * doy + 2) \div 153
        d   == doy - (153 * mp + 2) \div 5 + 1
        m   == IF mp < 10 THEN mp + 3 ELSE mp - 9
        y   == yoe + era * 400 + (IF m <= 2 THEN 1 ELSE 0)
    IN  y * 10000 + m * 100 + d

-----------------------------------------------------------------------------
(* Identity store: DeviceRegistry and its file *)

\* the speakers' addresses
RegKeys == {"192.168.1.11", "192.168.1.12"}

\* a value that is undefined
Undefined == <<>>

\* {} : a registry without entries
EmptyRegistry == [k \in {} |-> Undefined]

\* the file at REGISTRY_PATH: absent, text JSON.parse throws on, or the text
\* of a registry
MissingFile == [kind |-> "missing", content |-> {}]
GarbageFile == [kind |-> "garbage", content |-> {}]

\* JSON.stringify(this._registry, null, 2): the text lists, per key, the record
Stringify(reg) == { [name |-> k, value |-> reg[k]] : k \in DOMAIN reg }

\* JSON.parse(data): the object with one property per member of the text
Parse(content) ==
    [k \in { m.name : m \in content } |->
        (CHOOSE m \in content : m.name = k).value]

\* a _load that ignores the file
LoadNothing(f) == EmptyRegistry

\* DeviceRegistry._load: the parsed file, or {} when the file is missing or
\* reading / parsing it throws
Load(f) == IF f.kind = "json" THEN Parse(f.content) ELSE EmptyRegistry

\* no intent was delivered to the Bridge
NoCalls == [calls |-> <<>>, rejected |-> FALSE]

\* config.basePort: options.base_port || 8009
BasePort == 8009

\* SonosManager has not been started: no scan, no speaker, no receiver
NoOrch ==
    [running |-> FALSE, net |-> {}, repeats |-> FALSE, options |-> {}, excluded |-> {},
     scanOpen |-> FALSE, found |-> {},
     speakers |-> {}, fetches |-> [k \in RegKeys |-> 0],
     nextPort |-> BasePort, allocated |-> <<>>,
     starting |-> {}, active |-> {}, devices |-> [k \in {} |-> 0],
     announced |-> {}, gone |-> {}]

\* no bridge has been constructed: the identity store is not in use
InitRegistryIdle ==
    /\ registry = EmptyRegistry /\ file = MissingFile
    /\ nextIdentity = 0 /\ now = 0
    /\ castDevices = {} /\ tlsOptions = Undefined
    /\ given = EmptyRegistry /\ persisted = EmptyRegistry
    /\ loadedFrom = "missing"
    /\ deviceCalls = NoCalls
    /\ orch = NoOrch

-----------------------------------------------------------------------------
(* Protocol listener: CastProtocolServer *)

MaxClients == 2

\* session.senderId = null
NoSender == "null"

\* CastDevice._onConnect
OnConnect(clientId) ==
    sessions' = [c \in DOMAIN sessions \cup {clientId} |->
                    IF c = clientId THEN NoSender ELSE sessions[c]]

\* CastDevice._onDisconnect
OnDisconnect(clientId) ==
    sessions' = [c \in DOMAIN sessions \ {clientId} |-> sessions[c]]

\* a counter that stays where it is once it has given an id
NextClientIdStuck(n) == 1

\* `client-${++this._clientCounter}`
NextClientId(n) == n + 1

\* no event has been emitted for any connection id
NoLifecycle ==
    [c \in 1..MaxClients |-> [connects |-> 0, disconnects |-> 0, bound |-> NoSender]]

\* CastProtocolServer._onConnection: a TLS connection is accepted, gets the
\* next id, enters _clients, and 'connect' is emitted (handled by _onConnect).
OnConnection ==
    /\ listening /\ ~crashed
    /\ clientCounter < MaxClients
    /\ LET clientId == NextClientId(clientCounter)
       IN  /\ clientCounter' = clientId
           /\ clients' = clients \cup {clientId}
           /\ sockState' = Append(sockState, "open")
           /\ OnConnect(clientId)
           /\ lifecycle' = [lifecycle EXCEPT ![clientId].connects = @ + 1]
    /\ UNCHANGED listening

\* socket.on('close'): the id leaves _clients and 'disconnect' is emitted
\* (handled by _onDisconnect).  The socket was closed by the peer or by an
\* error ("open"), or destroyed by close() ("destroyed").
OnSocketClose(clientId) ==
    /\ ~crashed
    /\ clientId \in 1..clientCounter
    /\ sockState[clientId] \in {"open", "destroyed"}
    /\ sockState' = [sockState EXCEPT ![clientId] = "closed"]
    /\ clients' = clients \ {clientId}
    /\ OnDisconnect(clientId)
    /\ lifecycle' = [lifecycle EXCEPT ![clientId].disconnects = @ + 1]
    /\ UNCHANGED <<clientCounter, listening>>

-----------------------------------------------------------------------------
(* SpecFrame: one connection and its PacketReader *)

InitListener ==
    /\ clients = {} /\ clientCounter = 0 /\ sockState = <<>> /\ listening = TRUE
    /\ lifecycle = NoLifecycle

InitDevice ==
    /\ server = TRUE
    /\ sessions = <<>>
    /\ appRunning = FALSE
    /\ sessionId = 0
    /\ mediaStatus = <<>>
    /\ mediaRequestId = 0
    /\ timers = <<>>
    /\ crashed = FALSE

InitReader ==
    /\ wire = <<>> /\ stream = <<>> /\ received = 0
    /\ buffer = <<>> /\ expectedLength = NoLength
    /\ delivered = <<>> /\ warnings = 0

NoLast == [op |-> "none"]

InitLog(keep) ==
    /\ sent = <<>> /\ emitted = <<>> /\ handled = <<>>
    /\ keepLog = keep /\ loads = <<>> /\ last = NoLast

DefaultToday == DaysFromCivil(2026, 2, 22)

InitFrame ==
    /\ InitListener /\ InitDevice /\ InitReader /\ InitRegistryIdle /\ InitLog(FALSE)
    /\ today = DefaultToday /\ script = <<>>

\* The first connection is accepted (new PacketReader) and its peer writes a
\* stream of frames.
FrameConnect ==
    /\ clientCounter = 0
    /\ OnConnection
    /\ \E st \in Streams : stream' = st /\ wire' = WireOf(st)
    /\ last' = [op |-> "connect"]
    /\ UNCHANGED <<received, buffer, expectedLength, delivered, warnings>>
    /\ UNCHANGED <<server, appRunning, sessionId, mediaStatus, mediaRequestId,
                   timers, crashed, today, sent, emitted, handled, script, keepLog, loads, bridgeVars>>

\* socket.on('data', chunk) with the next n bytes of the wire as the chunk:
\* PacketReader._onData; every decoded message goes to onMessage.
OnData(n) ==
    /\ ~crashed
    /\ 1 \in clients /\ sockState[1] = "open"
    /\ n \in 1..Len(wire)
    /\ LET chunk == Take(wire, n)
           r == ReadLoop([buffer |-> buffer \o chunk,
                          expectedLength |-> expectedLength,
                          out |-> delivered, warnings |-> warnings])
       IN  /\ buffer' = r.buffer
           /\ expectedLength' = r.expectedLength
           /\ delivered' = r.out
           /\ warnings' = r.warnings
           /\ last' = [op |-> "data",
                       inPrefix |-> (expectedLength = NoLength /\ buffer # <<>>),
                       inBody |-> (expectedLength # NoLength),
                       frames |-> (Len(r.out) - Len(delivered))
                                  + (r.warnings - warnings)]
    /\ wire' = Drop(wire, n)
    /\ received' = received + n
    /\ UNCHANGED <<stream, listenerVars, deviceVars, today,
                   sent, emitted, handled, script, keepLog, loads, lifecycle, bridgeVars>>

\* the peer closes the connection
FrameClose ==
    /\ OnSocketClose(1)
    /\ last' = [op |-> "close"]
    /\ UNCHANGED <<frameVars, today, sent, emitted, handled, script, keepLog, loads, bridgeVars>>
    /\ UNCHANGED <<server, appRunning, sessionId, mediaStatus, mediaRequestId,
                   timers, crashed>>

NextFrame ==
    \/ FrameConnect
    \/ \E n \in 1..Len(wire) : OnData(n)
    \/ FrameClose

SpecFrame == InitFrame /\ [][NextFrame]_vars

-----------------------------------------------------------------------------
(* Frame codec: claims *)

\* the number of leading frames of st that lie wholly within its first pos bytes
RECURSIVE CompleteFrames(_, _)
CompleteFrames(st, pos) ==
    IF st = <<>> \/ pos < 4 + Len(Head(st).body) THEN 0
    ELSE 1 + CompleteFrames(Tail(st), pos - (4 + Len(Head(st).body)))

\* the envelopes of the first k frames of st, the undecodable frames left out
EnvelopesOf(st, k) == Concat([i \in 1..k |-> st[i].msg])

AllEnvelopes(st) == \A i \in 1..Len(st) : st[i].msg # <<>>

\* C1: when every frame of the stream is an encoded envelope, then after any
\* chunks the reader has delivered exactly the envelopes of the frames that
\* have completely arrived, in order (so all of them once the stream is through).
C1_FramingRoundTrip ==
    AllEnvelopes(stream) =>
        delivered = EnvelopesOf(stream, CompleteFrames(stream, received))

\* a stream of at least two envelopes has arrived whole, the last chunk
\* starting inside a length prefix
C1_Witness ==
    /\ Len(stream) >= 2 /\ AllEnvelopes(stream)
    /\ wire = <<>> /\ received > 0
    /\ Len(delivered) = Len(stream)
    /\ last.op = "data" /\ last.inPrefix

\* C2: an undecodable body costs only its own frame: whatever frames the
\* stream holds, the reader has delivered the envelopes of all decodable
\* frames that have completely arrived, in order, each undecodable one was
\* logged once, and while data is handled the connection stays in the live
\* set with its session (no disconnect).
C2_BadFrameDiscardedAlone ==
    /\ delivered = EnvelopesOf(stream, CompleteFrames(stream, received))
    /\ warnings = CompleteFrames(stream, received) - Len(delivered)
    /\ last.op = "data" => (1 \in clients /\ 1 \in DOMAIN sessions
                            /\ sockState[1] = "open")

\* one chunk completed an undecodable frame and a decodable frame after it
C2_Witness ==
    /\ last.op = "data" /\ last.frames >= 2
    /\ Len(stream) >= 2
    /\ stream[1].msg = <<>> /\ stream[2].msg # <<>>
    /\ warnings = 1 /\ Len(delivered) >= 1
    /\ 1 \in clients

-----------------------------------------------------------------------------
(* Session engine: CastDevice.  Messages and replies.                       *)

MaxLoads == 2
MaxLaunches == 2

CASTV2_NS_CONNECTION == "urn:x-cast:com.google.cast.tp.connection"
CASTV2_NS_HEARTBEAT  == "urn:x-cast:com.google.cast.tp.heartbeat"
CASTV2_NS_RECEIVER   == "urn:x-cast:com.google.cast.receiver"
CASTV2_NS_MEDIA      == "urn:x-cast:com.google.cast.media"
CASTV2_NS_DEVICEAUTH == "urn:x-cast:com.google.cast.tp.deviceauth"

DEFAULT_MEDIA_RECEIVER == "CC1AD845"
ReceiverId  == "receiver-0"
\* `transport-${this.deviceId.substring(0, 8)}`
TransportId == "transport-0a1b2c3d"

Senders == {"sender-0", "sender-1"}
Times   == {0, 30}

\* p.f of a parsed payload, `dflt` standing for undefined
Field(p, f, dflt) == IF f \in DOMAIN p THEN p[f] ELSE dflt

\* a text payload that JSON.parse accepts, of the given type
Json(t) == [json |-> TRUE, type |-> t, requestId |-> 1]

\* a text payload JSON.parse throws on
BadJson == [json |-> FALSE]

Volume == <<[level |-> 50, muted |-> FALSE]>>
Media  == <<[contentId |-> "http://x/a.mp3", contentType |-> "audio/mpeg"]>>

ConnectionPayloads == { Json("CONNECT"), Json("CLOSE"), BadJson }
HeartbeatPayloads  == { Json("PING"), Json("PONG"), BadJson }
ReceiverPayloads ==
    { Json("GET_STATUS"), [json |-> TRUE, type |-> "GET_STATUS"],
      Json("LAUNCH") @@ [appId |-> "YouTube"], Json("STOP"),
      Json("SET_VOLUME") @@ [volume |-> Volume], Json("SET_VOLUME"),
      Json("FOO"), BadJson }
MediaPayloads ==
    { Json("SEEK") @@ [currentTime |-> t] : t \in Times }
    \cup { Json("LOAD") @@ [media |-> Media] }
    \cup { Json("LOAD"), Json("LOAD") @@ [media |-> <<[contentType |-> "audio/mpeg"]>>],
           Json("PLAY"), Json("PAUSE"), Json("STOP"), Json("GET_STATUS"),
           Json("SET_VOLUME") @@ [volume |-> Volume], Json("SET_VOLUME"),
           Json("FOO"), BadJson }
\* a binary payload: an encoded DeviceAuthMessage (decodes), or bytes that
\* deviceAuthType.decode throws on; faultInBuild: castAuth.handleAuthChallenge
\* throws while it builds or encodes the response
AuthPayloads == { [decodes |-> d, faultInBuild |-> f] : d, f \in BOOLEAN }

PayloadsOf(ns) ==
    CASE ns = CASTV2_NS_CONNECTION -> ConnectionPayloads
      [] ns = CASTV2_NS_HEARTBEAT  -> HeartbeatPayloads
      [] ns = CASTV2_NS_RECEIVER   -> ReceiverPayloads
      [] ns = CASTV2_NS_MEDIA      -> MediaPayloads
      [] ns = CASTV2_NS_DEVICEAUTH -> AuthPayloads
      [] OTHER                     -> { Json("PING") }

Namespaces ==
    { CASTV2_NS_CONNECTION, CASTV2_NS_HEARTBEAT, CASTV2_NS_RECEIVER,
      CASTV2_NS_MEDIA, CASTV2_NS_DEVICEAUTH, "urn:x-cast:other" }

\* the 'message' event of the listener
Message(clientId, sourceId, ns, data) ==
    [clientId |-> clientId, sourceId |-> sourceId,
     destinationId |-> IF ns = CASTV2_NS_MEDIA THEN TransportId ELSE ReceiverId,
     namespace |-> ns, data |-> data]

\* the log of intents a step appends to: the run's log, or an empty one
Log(log) == IF keepLog THEN log ELSE <<>>

\* a send that writes whether or not the connection is known
SendAlways(log, clientId, sourceId, destinationId, ns, payload) ==
    Append(log, [clientId |-> clientId, sourceId |-> sourceId,
                 destinationId |-> destinationId, namespace |-> ns,
                 payload |-> payload])

\* CastProtocolServer.send: an unknown client is logged and nothing is written
Send(log, clientId, sourceId, destinationId, ns, payload) ==
    IF clientId \notin clients THEN log
    ELSE Append(log, [clientId |-> clientId, sourceId |-> sourceId,
                      destinationId |-> destinationId, namespace |-> ns,
                      payload |-> payload])

\* a receiver status that lists the application whether or not it runs
ReceiverStatusAlwaysApp(running, sid, requestId) ==
    [type |-> "RECEIVER_STATUS", requestId |-> requestId,
     applications |-> <<[appId |-> DEFAULT_MEDIA_RECEIVER, isIdleScreen |-> FALSE,
                         sessionId |-> sid, transportId |-> TransportId]>>]

\* the status object of _sendReceiverStatus
ReceiverStatus(running, sid, requestId) ==
    [type |-> "RECEIVER_STATUS", requestId |-> requestId,
     applications |-> IF running
                      THEN <<[appId |-> DEFAULT_MEDIA_RECEIVER, isIdleScreen |-> FALSE,
                              sessionId |-> sid, transportId |-> TransportId]>>
                      ELSE <<>>]

\* CastDevice._sendReceiverStatus, with the app state it reports
SendReceiverStatus(running, sid, clientId, sourceId, requestId) ==
    sent' = Send(<<>>, clientId, ReceiverId, sourceId, CASTV2_NS_RECEIVER,
                 ReceiverStatus(running, sid, requestId))

\* playerState left undefined
NoState == "undefined"

\* _sendMediaStatus that reports the state asked for but never stores it
SendMediaStatusNoStore(ms, clientId, sourceId, requestId, playerState) ==
    /\ mediaStatus' = ms
    /\ sent' = Send(<<>>, clientId, TransportId, sourceId, CASTV2_NS_MEDIA,
                    [type |-> "MEDIA_STATUS", requestId |-> requestId,
                     status |-> IF ms # <<>> /\ playerState # NoState
                                THEN <<[ms[1] EXCEPT !.playerState = playerState]>>
                                ELSE ms])

\* a _sendMediaStatus that shows the record to the first connection only
SendMediaStatusOwnOnly(ms, clientId, sourceId, requestId, playerState) ==
    LET ms2 == IF ms # <<>> /\ playerState # NoState
               THEN <<[ms[1] EXCEPT !.playerState = playerState]>>
               ELSE ms
    IN  /\ mediaStatus' = ms2
        /\ sent' = Send(<<>>, clientId, TransportId, sourceId, CASTV2_NS_MEDIA,
                        [type |-> "MEDIA_STATUS", requestId |-> requestId,
                         status |-> IF clientId = 1 THEN ms2 ELSE <<>>])

\* CastDevice._sendMediaStatus, ms being this._mediaStatus when it is called
SendMediaStatus(ms, clientId, sourceId, requestId, playerState) ==
    LET ms2 == IF ms # <<>> /\ playerState # NoState
               THEN <<[ms[1] EXCEPT !.playerState = playerState]>>
               ELSE ms
    IN  /\ mediaStatus' = ms2
        /\ sent' = Send(<<>>, clientId, TransportId, sourceId, CASTV2_NS_MEDIA,
                        [type |-> "MEDIA_STATUS", requestId |-> requestId,
                         status |-> ms2])

\* an emitter that delivers every event twice
EmitTwice(events) == emitted' = Log(emitted) \o events \o events

\* an emitter that delivers the newest event ahead of the earlier ones
EmitFirst(events) == emitted' = events \o Log(emitted)

\* this.emit(...): the events reach the listeners in the order emitted
Emit(events) == emitted' = Log(emitted) \o events
NoSend == sent' = <<>>

-----------------------------------------------------------------------------
(* Namespace handlers *)

\* a connection handler that binds the sender of any message type
HandleConnectionBindsAny(clientId, sourceId, data) ==
    /\ sessions' = IF data.json /\ clientId \in DOMAIN sessions
                   THEN [sessions EXCEPT ![clientId] = sourceId]
                   ELSE sessions
    /\ NoSend /\ Emit(<<>>)
    /\ UNCHANGED <<appRunning, sessionId, mediaStatus, mediaRequestId, timers>>

\* CastDevice._handleConnection
HandleConnection(clientId, sourceId, data) ==
    /\ sessions' = IF data.json /\ data.type = "CONNECT" /\ clientId \in DOMAIN sessions
                   THEN [sessions EXCEPT ![clientId] = sourceId]
                   ELSE sessions
    /\ NoSend /\ Emit(<<>>)
    /\ UNCHANGED <<appRunning, sessionId, mediaStatus, mediaRequestId, timers>>

\* CastDevice._handleHeartbeat
HandleHeartbeatToOldest(clientId, sourceId, data) ==
    /\ sent' = IF data.json /\ data.type = "PING"
               THEN Send(<<>>, CHOOSE c \in clients : \A d \in clients : c <= d,
                         ReceiverId, sourceId,
                         CASTV2_NS_HEARTBEAT, [type |-> "PONG"])
               ELSE <<>>
    /\ Emit(<<>>)
    /\ UNCHANGED <<sessions, appRunning, sessionId, mediaStatus, mediaRequestId, timers>>

HandleHeartbeat(clientId, sourceId, data) ==
    /\ sent' = IF data.json /\ data.type = "PING"
               THEN Send(<<>>, clientId, ReceiverId, sourceId,
                         CASTV2_NS_HEARTBEAT, [type |-> "PONG"])
               ELSE <<>>
    /\ Emit(<<>>)
    /\ UNCHANGED <<sessions, appRunning, sessionId, mediaStatus, mediaRequestId, timers>>

\* a LAUNCH that keeps the media status
HandleLaunchKeepsMedia(clientId, sourceId, payload) ==
    /\ sessionId < MaxLaunches
    /\ appRunning' = TRUE
    /\ sessionId' = sessionId + 1
    /\ mediaStatus' = mediaStatus
    /\ SendReceiverStatus(TRUE, sessionId + 1, clientId, sourceId,
                          Field(payload, "requestId", 0))
    /\ Emit(<<>>)
    /\ UNCHANGED <<sessions, mediaRequestId, timers>>

\* CastDevice._handleLaunch; uuidv4() draws the next unused uuid
HandleLaunch(clientId, sourceId, payload) ==
    /\ sessionId < MaxLaunches
    /\ appRunning' = TRUE
    /\ sessionId' = sessionId + 1
    /\ mediaStatus' = <<>>
    /\ SendReceiverStatus(TRUE, sessionId + 1, clientId, sourceId,
                          Field(payload, "requestId", 0))
    /\ Emit(<<>>)
    /\ UNCHANGED <<sessions, mediaRequestId, timers>>

\* a receiver STOP that leaves the media status in place
HandleStopKeepsMedia(clientId, sourceId, payload) ==
    /\ appRunning' = FALSE
    /\ mediaStatus' = mediaStatus
    /\ Emit(<<[type |-> "stop"]>>)
    /\ SendReceiverStatus(FALSE, sessionId, clientId, sourceId,
                          Field(payload, "requestId", 0))
    /\ UNCHANGED <<sessions, sessionId, mediaRequestId, timers>>

\* CastDevice._handleStop
HandleStop(clientId, sourceId, payload) ==
    /\ appRunning' = FALSE
    /\ mediaStatus' = <<>>
    /\ Emit(<<[type |-> "stop"]>>)
    /\ SendReceiverStatus(FALSE, sessionId, clientId, sourceId,
                          Field(payload, "requestId", 0))
    /\ UNCHANGED <<sessions, sessionId, mediaRequestId, timers>>

\* a 'volume' event that leaves out what the payload asked for
VolumeEventsDefault(payload) ==
    <<[type |-> "volume", level |-> 100, muted |-> FALSE]>>

\* the 'volume' event of a SET_VOLUME payload, if it has a volume; level and
\* muted are undefined (absent) when the volume object has no such property
VolumeEvents(payload) ==
    IF Field(payload, "volume", <<>>) # <<>>
    THEN <<[type |-> "volume"]
           @@ (IF "level" \in DOMAIN payload.volume[1]
               THEN [level |-> payload.volume[1].level] ELSE <<>>)
           @@ (IF "muted" \in DOMAIN payload.volume[1]
               THEN [muted |-> payload.volume[1].muted] ELSE <<>>)>>
    ELSE <<>>

\* CastDevice._handleSetVolume
HandleSetVolume(clientId, sourceId, payload) ==
    /\ Emit(VolumeEvents(payload))
    /\ SendReceiverStatus(appRunning, sessionId, clientId, sourceId,
                          Field(payload, "requestId", 0))
    /\ UNCHANGED <<sessions, appRunning, sessionId, mediaStatus, mediaRequestId, timers>>

\* a bad message that tears the application down
IgnoredResets ==
    /\ NoSend /\ Emit(<<>>)
    /\ appRunning' = FALSE /\ mediaStatus' = <<>>
    /\ UNCHANGED <<sessions, sessionId, mediaRequestId, timers>>

\* nothing happens: an exception caught and logged, an unknown type or namespace
Ignored ==
    /\ NoSend /\ Emit(<<>>)
    /\ UNCHANGED <<sessions, appRunning, sessionId, mediaStatus, mediaRequestId, timers>>

\* CastDevice._handleReceiver
HandleReceiver(clientId, sourceId, data) ==
    IF ~data.json THEN Ignored
    ELSE CASE data.type = "GET_STATUS" ->
                /\ SendReceiverStatus(appRunning, sessionId, clientId, sourceId,
                                      Field(data, "requestId", 0))
                /\ Emit(<<>>)
                /\ UNCHANGED <<sessions, appRunning, sessionId, mediaStatus,
                               mediaRequestId, timers>>
           [] data.type = "LAUNCH"     -> HandleLaunch(clientId, sourceId, data)
           [] data.type = "STOP"       -> HandleStop(clientId, sourceId, data)
           [] data.type = "SET_VOLUME" -> HandleSetVolume(clientId, sourceId, data)
           [] OTHER                    -> Ignored

-----------------------------------------------------------------------------
(* Media namespace *)

\* a counter that is read but not advanced
SameId(n) == IF n = 0 THEN 1 ELSE n

\* ++this._mediaRequestId
PreIncrement(n) == n + 1

\* the media object of a LOAD has a contentId
HasContent(payload) ==
    /\ Field(payload, "media", <<>>) # <<>>
    /\ Field(payload.media[1], "contentId", "") # ""

\* _handleMediaLoad past its check: the record is replaced, 'load' is emitted,
\* BUFFERING is sent; setTimeout(..., 500) is the new last timer
AcceptLoad(clientId, sourceId, payload) ==
    LET media == payload.media
    IN  /\ mediaRequestId < MaxLoads
        /\ mediaRequestId' = PreIncrement(mediaRequestId)
        /\ Emit(<<[type |-> "load", contentId |-> media[1].contentId,
                   contentType |-> Field(media[1], "contentType", ""),
                   streamType |-> Field(media[1], "streamType", "BUFFERED"),
                   autoplay |-> Field(payload, "autoplay", TRUE),
                   currentTime |-> Field(payload, "currentTime", 0)]>>)
        /\ SendMediaStatus(
               <<[mediaSessionId |-> PreIncrement(mediaRequestId),
                  playerState |-> "BUFFERING",
                  contentId |-> media[1].contentId,
                  currentTime |-> Field(payload, "currentTime", 0)]>>,
               clientId, sourceId, Field(payload, "requestId", 0), "BUFFERING")
        /\ timers' = Append(timers, [clientId |-> clientId, sourceId |-> sourceId])
        /\ UNCHANGED <<sessions, appRunning, sessionId>>

\* a LOAD handler that answers a LOAD it does not accept with the media status
HandleMediaLoadAnswersAll(clientId, sourceId, payload) ==
    IF HasContent(payload)
    THEN AcceptLoad(clientId, sourceId, payload)
    ELSE /\ Emit(<<>>)
         /\ SendMediaStatus(mediaStatus, clientId, sourceId,
                            Field(payload, "requestId", 0), NoState)
         /\ UNCHANGED <<sessions, appRunning, sessionId, mediaRequestId, timers>>

\* CastDevice._handleMediaLoad
HandleMediaLoad(clientId, sourceId, payload) ==
    IF HasContent(payload)
    THEN AcceptLoad(clientId, sourceId, payload)
    ELSE Ignored

\* CastDevice._handleMedia
HandleMedia(clientId, sourceId, data) ==
    IF ~data.json THEN Ignored
    ELSE LET requestId == Field(data, "requestId", 0)
             Reply(events, playerState) ==
                /\ Emit(events)
                /\ SendMediaStatus(mediaStatus, clientId, sourceId, requestId, playerState)
                /\ UNCHANGED <<sessions, appRunning, sessionId, mediaRequestId, timers>>
         IN  CASE data.type = "LOAD"  -> HandleMediaLoad(clientId, sourceId, data)
               [] data.type = "PLAY"  -> Reply(<<[type |-> "play"]>>, "PLAYING")
               [] data.type = "PAUSE" -> Reply(<<[type |-> "pause"]>>, "PAUSED")
               [] data.type = "STOP"  -> Reply(<<[type |-> "stop"]>>, "IDLE")
               [] data.type = "SEEK"  ->
                    Reply(<<[type |-> "seek",
                             currentTime |-> Field(data, "currentTime", 0)]>>, "PLAYING")
               [] data.type = "GET_STATUS" ->
                    Reply(<<>>, IF mediaStatus # <<>> THEN mediaStatus[1].playerState
                                                      ELSE "IDLE")
               [] data.type = "SET_VOLUME" -> Reply(VolumeEvents(data), NoState)
               [] OTHER -> Ignored

\* The callback of the setTimeout of _handleMediaLoad:
\* this._sendMediaStatus(clientId, sourceId, 0, 'PLAYING').  Equal delays fire
\* in the order they were set.  After stop() this._server is null: the state
\* is written, then this._server.send throws a TypeError nobody catches
\* (index.js: uncaughtException, process.exit(1)).
TimerFires ==
    /\ ~crashed
    /\ timers # <<>>
    /\ LET t == Head(timers)
       IN  /\ timers' = Tail(timers)
           /\ IF server
              THEN /\ SendMediaStatus(mediaStatus, t.clientId, t.sourceId, 0, "PLAYING")
                   /\ crashed' = FALSE
              ELSE /\ mediaStatus' = IF mediaStatus # <<>>
                                     THEN <<[mediaStatus[1] EXCEPT !.playerState = "PLAYING"]>>
                                     ELSE mediaStatus
                   /\ sent' = <<>>
                   /\ crashed' = TRUE
           /\ Emit(<<>>)
           /\ handled' = Log(handled)
           /\ last' = [op |-> "timer", timer |-> t, stopped |-> ~server,
                       live |-> (t.clientId \in clients),
                       pre |-> [appRunning |-> appRunning, mediaStatus |-> mediaStatus,
                                mediaRequestId |-> mediaRequestId]]
    /\ UNCHANGED <<listenerVars, frameVars, server, sessions, appRunning, sessionId,
                   mediaRequestId, today, script, keepLog, loads, lifecycle, bridgeVars>>

-----------------------------------------------------------------------------
(* Signature table and device authentication *)

\* AuthError.ErrorType.INTERNAL_ERROR
INTERNAL_ERROR == 0
SIGNATURE_SIZE == 256
HOURS_PER_SIGNATURE == 48
\* the number of complete signatures in the data file
NumSignatures == 795

\* startDate = new Date('2023-08-15T00:00:00Z')
StartDate == DaysFromCivil(2023, 8, 15)

\* a table keyed every 24 hours
DailyDateKey(i) == DateKey(StartDate + i)

\* the key of signature i: the date startDate + i * 48 hours
SignatureDateKey(i) == DateKey(StartDate + (i * HOURS_PER_SIGNATURE) \div 24)

\* SIGNATURES of cast-auth.js as the build script generates it: signature i
\* (256 bytes of the data file) under the key of its date
SIGNATURES ==
    { [key |-> SignatureDateKey(i), index |-> i, size |-> SIGNATURE_SIZE] :
        i \in 0..(NumSignatures - 1) }

\* The lookup of cast-auth.js: the entry whose 48-hour window, starting at its
\* key date, holds the day; <<>> when no window does.
GetSignatureForDate(day) ==
    LET hits == { e \in SIGNATURES :
                    /\ StartDate + (e.index * HOURS_PER_SIGNATURE) \div 24 <= day
                    /\ day < StartDate + ((e.index + 1) * HOURS_PER_SIGNATURE) \div 24 }
    IN  IF hits = {} THEN <<>> ELSE <<CHOOSE e \in hits : TRUE>>

\* castAuth.handleAuthChallenge: the encoded response sub-message with the
\* signature of the day, the device certificate and its intermediate
\* certificate; <<>> (null) when the table has no signature for the day
HandleAuthChallenge(day) ==
    LET sig == GetSignatureForDate(day)
    IN  IF sig = <<>> THEN <<>>
        ELSE <<[response |-> [signature |-> sig[1],
                               clientAuthCertificate |-> "AUTH_CRT",
                               intermediateCertificate |-> <<"ICA">>]]>>

\* deviceAuthType.create({ error: { errorType: 0 } })
AuthError == [error |-> [errorType |-> INTERNAL_ERROR]]

\* module.exports of logger.js has no warn: log.warn(...) throws a TypeError
LogWarnThrows == TRUE

\* an auth handler whose catch block only logs
HandleDeviceAuthSilentCatch(clientId, sourceId, data) ==
    LET resp  == HandleAuthChallenge(today)
        threw == ~data.decodes \/ data.faultInBuild \/ (resp = <<>> /\ LogWarnThrows)
    IN  /\ sent' = IF threw THEN <<>>
                   ELSE Send(<<>>, clientId, ReceiverId, sourceId, CASTV2_NS_DEVICEAUTH,
                             IF resp # <<>> THEN resp[1] ELSE AuthError)
        /\ Emit(<<>>)
        /\ UNCHANGED <<sessions, appRunning, sessionId, mediaStatus, mediaRequestId, timers>>

\* an auth handler without the error fallback of the no-signature branch
HandleDeviceAuthNoFallback(clientId, sourceId, data) ==
    LET resp  == HandleAuthChallenge(today)
        threw == ~data.decodes \/ data.faultInBuild
    IN  /\ sent' = IF threw
                   THEN Send(<<>>, clientId, ReceiverId, sourceId, CASTV2_NS_DEVICEAUTH,
                             AuthError)
                   ELSE IF resp # <<>>
                   THEN Send(<<>>, clientId, ReceiverId, sourceId, CASTV2_NS_DEVICEAUTH,
                             resp[1])
                   ELSE <<>>
        /\ Emit(<<>>)
        /\ UNCHANGED <<sessions, appRunning, sessionId, mediaStatus, mediaRequestId, timers>>

\* CastDevice._handleDeviceAuth.  The try block throws when decode throws, when
\* handleAuthChallenge throws, or at log.warn on the no-signature branch
\* (before its send); the catch block sends the error sub-message.
HandleDeviceAuth(clientId, sourceId, data) ==
    LET resp  == HandleAuthChallenge(today)
        threw == ~data.decodes \/ data.faultInBuild \/ (resp = <<>> /\ LogWarnThrows)
    IN  /\ sent' = Send(<<>>, clientId, ReceiverId, sourceId, CASTV2_NS_DEVICEAUTH,
                        IF threw THEN AuthError
                        ELSE IF resp # <<>> THEN resp[1] ELSE AuthError)
        /\ Emit(<<>>)
        /\ UNCHANGED <<sessions, appRunning, sessionId, mediaStatus, mediaRequestId, timers>>

-----------------------------------------------------------------------------
(* Dispatch and the specifications *)

\* what the observer records of the state before a step
Pre == [appRunning |-> appRunning, mediaStatus |-> mediaStatus,
        mediaRequestId |-> mediaRequestId, sessionId |-> sessionId,
        sessions |-> sessions, timers |-> timers]

\* a CONNECT of the connection namespace
IsConnect(msg) ==
    /\ msg.namespace = CASTV2_NS_CONNECTION
    /\ msg.data.json /\ msg.data.type = "CONNECT"

\* a media LOAD that _handleMediaLoad accepts (it names a contentId)
AcceptedLoad(msg) ==
    /\ msg.namespace = CASTV2_NS_MEDIA
    /\ msg.data.json /\ msg.data.type = "LOAD"
    /\ Field(msg.data, "media", <<>>) # <<>>
    /\ Field(msg.data.media[1], "contentId", "") # ""

\* The listener's 'message' event, handled by CastDevice._onMessage: a message
\* decoded from a live connection.
HandleMessage(msg) ==
    /\ ~crashed
    /\ msg.clientId \in clients
    /\ sockState[msg.clientId] = "open"
    /\ CASE msg.namespace = CASTV2_NS_CONNECTION ->
              HandleConnection(msg.clientId, msg.sourceId, msg.data)
         [] msg.namespace = CASTV2_NS_HEARTBEAT ->
              HandleHeartbeat(msg.clientId, msg.sourceId, msg.data)
         [] msg.namespace = CASTV2_NS_DEVICEAUTH ->
              HandleDeviceAuth(msg.clientId, msg.sourceId, msg.data)
         [] msg.namespace = CASTV2_NS_RECEIVER ->
              HandleReceiver(msg.clientId, msg.sourceId, msg.data)
         [] msg.namespace = CASTV2_NS_MEDIA ->
              HandleMedia(msg.clientId, msg.sourceId, msg.data)
         [] OTHER -> Ignored
    /\ handled' = Log(handled) \o (IF keepLog THEN <<msg>> ELSE <<>>)
    /\ loads' = IF AcceptedLoad(msg)
                THEN Append(loads, mediaStatus'[1].mediaSessionId)
                ELSE loads
    /\ last' = [op |-> "message", msg |-> msg, pre |-> Pre]
    /\ lifecycle' = IF IsConnect(msg)
                    THEN [lifecycle EXCEPT ![msg.clientId].bound = msg.sourceId]
                    ELSE lifecycle
    /\ UNCHANGED <<listenerVars, frameVars, server, crashed, today, keepLog, regVars>>

\* the well-formed requests of the application and media life cycle
CorePayloads(ns) ==
    CASE ns = CASTV2_NS_RECEIVER ->
            { Json("GET_STATUS"), Json("LAUNCH") @@ [appId |-> "YouTube"],
              Json("STOP"), Json("SET_VOLUME") @@ [volume |-> Volume] }
      [] ns = CASTV2_NS_MEDIA ->
            { Json("LOAD") @@ [media |-> Media], Json("LOAD"),
              Json("PLAY"), Json("PAUSE"), Json("STOP"),
              Json("SEEK") @@ [currentTime |-> 30], Json("GET_STATUS"),
              Json("SET_VOLUME") @@ [volume |-> Volume] }
      [] OTHER -> PayloadsOf(ns)

\* a sender in srcs writes a message on a live connection: any payload of the
\* namespace, or (core) a well-formed request of the life cycle
OnMessageIn(srcs, nss, core) ==
    \E c \in clients, src \in srcs, ns \in nss :
        \E data \in (IF core THEN CorePayloads(ns) ELSE PayloadsOf(ns)) :
            HandleMessage(Message(c, src, ns, data)) /\ UNCHANGED <<script, deviceCalls>>

\* Spec explores the application and media life cycle: the requests of the
\* receiver and media namespaces, from one sender id, on every connection
OnMessage ==
    OnMessageIn({"sender-0"}, {CASTV2_NS_RECEIVER, CASTV2_NS_MEDIA}, TRUE)

\* a connection is accepted
Connect ==
    /\ OnConnection
    /\ sent' = <<>> /\ emitted' = Log(emitted) /\ handled' = Log(handled)
    /\ last' = [op |-> "connect", clientId |-> NextClientId(clientCounter)]
    /\ UNCHANGED <<frameVars, server, appRunning, sessionId, mediaStatus,
                   mediaRequestId, timers, crashed, today, script, keepLog, loads, bridgeVars>>

\* a socket closes
DisconnectOf(c) ==
    /\ OnSocketClose(c)
    /\ sent' = <<>> /\ emitted' = Log(emitted) /\ handled' = Log(handled)
    /\ last' = [op |-> "disconnect", clientId |-> c]
    /\ UNCHANGED <<frameVars, server, appRunning, sessionId, mediaStatus,
                   mediaRequestId, timers, crashed, today, script, keepLog, loads, bridgeVars>>

Disconnect == \E c \in 1..clientCounter : DisconnectOf(c)

\* a close() that forgets the connections without destroying their sockets
CloseKeepsSockets ==
    /\ sockState' = sockState
    /\ clients' = {}
    /\ listening' = FALSE
    /\ UNCHANGED <<clientCounter, lifecycle>>

\* CastProtocolServer.close: every socket is destroyed (its 'close' event
\* follows), _clients is cleared, the listener stops accepting
Close ==
    /\ sockState' = [i \in 1..clientCounter |->
                        IF sockState[i] = "open" THEN "destroyed" ELSE sockState[i]]
    /\ clients' = {}
    /\ listening' = FALSE
    /\ UNCHANGED <<clientCounter, lifecycle>>

\* CastDevice.stop (the speaker was lost, or the bridge stops)
Stop ==
    /\ ~crashed
    /\ server
    /\ Close
    /\ server' = FALSE
    /\ sent' = <<>> /\ emitted' = Log(emitted) /\ handled' = Log(handled)
    /\ last' = [op |-> "stop"]
    /\ UNCHANGED <<frameVars, sessions, appRunning, sessionId, mediaStatus,
                   mediaRequestId, timers, crashed, today, script, keepLog, loads, bridgeVars>>

Init ==
    /\ InitListener /\ InitDevice /\ InitReader /\ InitRegistryIdle /\ InitLog(FALSE)
    /\ today = DefaultToday /\ script = <<>>

Next ==
    \/ Connect
    \/ Disconnect
    \/ OnMessage
    \/ TimerFires
    \/ Stop

Spec == Init /\ [][Next]_vars

-----------------------------------------------------------------------------
(* Session engine: claims *)

\* the last step handled a message of namespace ns and type t
Handled(ns, t) ==
    /\ last.op = "message"
    /\ last.msg.namespace = ns
    /\ last.msg.data.json /\ last.msg.data.type = t

\* the last step wrote exactly one frame, to the connection and sender of the
\* message it handled, on namespace ns
OneReply(ns) ==
    /\ Len(sent) = 1
    /\ sent[1].clientId = last.msg.clientId
    /\ sent[1].destinationId = last.msg.sourceId
    /\ sent[1].namespace = ns

PlayerStateOf(ms) == IF ms = <<>> THEN "none" ELSE ms[1].playerState

\* C6: a receiver-namespace STOP, in whatever app and media state it is
\* handled, leaves appRunning false and no media status record, emits exactly
\* one stop intent, and is answered with one receiver status whose application
\* list is empty.
C6_ReceiverStopClearsAll ==
    Handled(CASTV2_NS_RECEIVER, "STOP") =>
        /\ ~appRunning
        /\ mediaStatus = <<>>
        /\ emitted = <<[type |-> "stop"]>>
        /\ OneReply(CASTV2_NS_RECEIVER)
        /\ sent[1].payload.type = "RECEIVER_STATUS"
        /\ sent[1].payload.applications = <<>>

\* a receiver STOP was handled while the app was running and its media paused
C6_Witness ==
    /\ Handled(CASTV2_NS_RECEIVER, "STOP")
    /\ last.pre.appRunning
    /\ PlayerStateOf(last.pre.mediaStatus) = "PAUSED"
    /\ ~appRunning /\ mediaStatus = <<>>

\* the synchronous reply of an accepted LOAD reports BUFFERING
LoadRepliesBuffering ==
    (last.op = "message" /\ AcceptedLoad(last.msg)) =>
        /\ PlayerStateOf(mediaStatus) = "BUFFERING"
        /\ OneReply(CASTV2_NS_MEDIA)
        /\ sent[1].payload.type = "MEDIA_STATUS"
        /\ PlayerStateOf(sent[1].payload.status) = "BUFFERING"

\* the last step wrote one unsolicited MEDIA_STATUS to the connection and
\* sender of the LOAD whose timer fired, with the given status list
PushIs(status) ==
    /\ Len(sent) = 1
    /\ sent[1].clientId = last.timer.clientId
    /\ sent[1].destinationId = last.timer.sourceId
    /\ sent[1].namespace = CASTV2_NS_MEDIA
    /\ sent[1].payload.type = "MEDIA_STATUS"
    /\ sent[1].payload.requestId = 0
    /\ sent[1].payload.status = status

\* C7 (as the code has it): the synchronous reply of every accepted LOAD
\* reports BUFFERING.  When the timer of a LOAD fires and a media status
\* record exists, its player state becomes PLAYING, whatever media messages
\* (PAUSE, SEEK, STOP) were handled in between, and on a running receiver the
\* push reporting PLAYING goes to the connection that issued the LOAD if that
\* connection is still live.  When a receiver STOP or a LAUNCH has cleared the
\* record in between, no state becomes PLAYING and the push carries an empty
\* status list.
C7_LoadBufferingThenPlaying ==
    /\ LoadRepliesBuffering
    /\ last.op = "timer" =>
          /\ IF last.pre.mediaStatus # <<>>
             THEN /\ mediaStatus =
                        <<[last.pre.mediaStatus[1] EXCEPT !.playerState = "PLAYING"]>>
                  /\ (last.live /\ ~last.stopped) => PushIs(mediaStatus)
             ELSE /\ mediaStatus = <<>>
                  /\ (last.live /\ ~last.stopped) => PushIs(<<>>)
          /\ (~last.live \/ last.stopped) => sent = <<>>

\* the timer of a LOAD fired after a PAUSE: the state went back to PLAYING and
\* the push went to the issuing connection
C7_Witness ==
    /\ last.op = "timer" /\ last.live /\ ~last.stopped
    /\ PlayerStateOf(last.pre.mediaStatus) = "PAUSED"
    /\ PlayerStateOf(mediaStatus) = "PLAYING"
    /\ PushIs(mediaStatus)

\* C7 as stated: whenever the timer of a LOAD fires (here with the issuing
\* connection live and the receiver running) the player state becomes PLAYING
\* and a push reporting PLAYING is sent, whatever was handled in between.
C7_AlwaysPlayingAfterDelay ==
    /\ LoadRepliesBuffering
    /\ (last.op = "timer" /\ last.live /\ ~last.stopped) =>
          /\ PlayerStateOf(mediaStatus) = "PLAYING"
          /\ PushIs(mediaStatus)

\* C8: the mediaSessionIds of the accepted LOADs of one receiver strictly
\* increase in the order the LOADs were handled, whatever LAUNCH, STOP,
\* connect and disconnect events lie between them and whichever connections
\* issued them; a LOAD rejected for its missing contentId consumes no id.
C8_MediaSessionIdIncreases ==
    /\ \A i, j \in DOMAIN loads : i < j => loads[i] < loads[j]
    /\ (last.op = "message" /\ Handled(CASTV2_NS_MEDIA, "LOAD")
            /\ ~AcceptedLoad(last.msg)) =>
          /\ mediaRequestId = last.pre.mediaRequestId
          /\ mediaStatus = last.pre.mediaStatus
          /\ sent = <<>> /\ emitted = <<>>

\* two LOADs were accepted, the second on another connection, after a LAUNCH
C8_Witness ==
    /\ Len(loads) = 2 /\ loads[1] < loads[2]
    /\ sessionId >= 1
    /\ last.op = "message" /\ AcceptedLoad(last.msg) /\ last.msg.clientId = 2
    /\ last.pre.mediaStatus # <<>>
    /\ last.pre.mediaStatus[1].mediaSessionId = loads[1]

\* C10 as stated: when the timer of a LOAD fires after stop(), no media state
\* is changed, no send is attempted and no fault is raised.
C10_PendingPushAbandoned ==
    (last.op = "timer" /\ last.stopped) =>
        /\ mediaStatus = last.pre.mediaStatus
        /\ sent = <<>>
        /\ ~crashed

\* C10 (what the code does): stop() leaves the timer pending; when it fires
\* the state of an existing record is set to PLAYING and the send on the
\* cleared this._server raises a fault that nothing catches.
C10_TimerAfterStopFaults ==
    (last.op = "timer" /\ last.stopped) =>
        /\ crashed
        /\ sent = <<>>
        /\ last.pre.mediaStatus # <<>> => PlayerStateOf(mediaStatus) = "PLAYING"

\* the timer of a LOAD fired after stop(): BUFFERING became PLAYING and the
\* process took an uncaught fault
C10_Witness ==
    /\ last.op = "timer" /\ last.stopped
    /\ PlayerStateOf(last.pre.mediaStatus) = "BUFFERING"
    /\ PlayerStateOf(mediaStatus) = "PLAYING"
    /\ crashed

-----------------------------------------------------------------------------
(* Device authentication: the specification and its claims *)

\* the last day the table covers
LastCovered == StartDate + (NumSignatures * HOURS_PER_SIGNATURE) \div 24 - 1

\* the system dates explored: around the first key, the dates of the
\* documented scenario, and around the end of the table
AuthDays ==
    { StartDate - 1, StartDate, StartDate + 1, StartDate + 2,
      DaysFromCivil(2026, 2, 20), DaysFromCivil(2026, 2, 21),
      DaysFromCivil(2026, 2, 22), DaysFromCivil(2026, 2, 23),
      LastCovered, LastCovered + 1, DaysFromCivil(2028, 1, 1) }

InitAuth ==
    /\ InitListener /\ InitDevice /\ InitReader /\ InitRegistryIdle /\ InitLog(FALSE)
    /\ today \in AuthDays /\ script = <<>>

\* a sender writes a device-auth message on a live connection
OnAuthMessage == OnMessageIn(Senders, {CASTV2_NS_DEVICEAUTH}, FALSE)

NextAuth ==
    \/ Connect
    \/ Disconnect
    \/ OnAuthMessage

SpecAuth == InitAuth /\ [][NextAuth]_vars

\* the last step handled a device-auth message
AuthHandled == last.op = "message" /\ last.msg.namespace = CASTV2_NS_DEVICEAUTH

\* the last step handled a challenge that decoded and whose response was
\* built without a fault
ChallengeHandled ==
    AuthHandled /\ last.msg.data.decodes /\ ~last.msg.data.faultInBuild

\* C3: when the signature lookup for the current date yields an entry, the
\* handler sends one response sub-message (no error) carrying that entry's
\* 256-byte signature; when it yields nothing, it sends one error sub-message
\* with INTERNAL_ERROR; either way no fault reaches the caller.
C3_AuthCoverage ==
    ChallengeHandled =>
        /\ OneReply(CASTV2_NS_DEVICEAUTH)
        /\ ~crashed
        /\ LET sig == GetSignatureForDate(today)
           IN  IF sig # <<>>
               THEN /\ DOMAIN sent[1].payload = {"response"}
                    /\ sent[1].payload.response.signature = sig[1]
                    /\ sent[1].payload.response.signature.size = SIGNATURE_SIZE
               ELSE sent[1].payload = [error |-> [errorType |-> INTERNAL_ERROR]]

\* a challenge was handled on the day after the table ran out and answered
\* with the error
C3_Witness ==
    /\ ChallengeHandled
    /\ today = LastCovered + 1
    /\ GetSignatureForDate(today) = <<>>
    /\ Len(sent) = 1 /\ "error" \in DOMAIN sent[1].payload

\* C4: every device-auth message handled on a live connection is answered
\* with exactly one message on the same connection and namespace; when
\* decoding the challenge or building the response throws, nothing reaches
\* the caller and the one reply is the INTERNAL_ERROR error.
C4_AuthAlwaysOneReply ==
    AuthHandled =>
        /\ OneReply(CASTV2_NS_DEVICEAUTH)
        /\ ~crashed
        /\ last.msg.clientId \in clients
        /\ (~last.msg.data.decodes \/ last.msg.data.faultInBuild) =>
              sent[1].payload = [error |-> [errorType |-> INTERNAL_ERROR]]

\* bytes that do not decode arrived on the second connection, on a day the
\* table covers, and were answered with the error
C4_Witness ==
    /\ AuthHandled /\ ~last.msg.data.decodes
    /\ last.msg.clientId = 2
    /\ GetSignatureForDate(today) # <<>>
    /\ Len(sent) = 1 /\ sent[1].payload = AuthError

IsKey(k) == \E e \in SIGNATURES : e.key = k

\* the signature of the reply of the last step is the blob keyed k
AnsweredWithKey(k) ==
    /\ OneReply(CASTV2_NS_DEVICEAUTH)
    /\ DOMAIN sent[1].payload = {"response"}
    /\ sent[1].payload.response.signature.key = k

\* a challenge on 2028-01-01, which no entry covers, gets the error
UncoveredDayGetsError ==
    (ChallengeHandled /\ today = DaysFromCivil(2028, 1, 1)) =>
        /\ OneReply(CASTV2_NS_DEVICEAUTH)
        /\ sent[1].payload = [error |-> [errorType |-> INTERNAL_ERROR]]

\* C5 (as the code has it): the keys run every 48 hours from 2023-08-15, so
\* 20260220 and 20260222 are both keys; each entry is valid for the 48 hours
\* that start at its key date, so a challenge on 2026-02-22 is answered with
\* the blob keyed 20260222; a challenge on 2028-01-01 gets INTERNAL_ERROR.
C5_DateBucketLookup ==
    /\ IsKey(20260220) /\ IsKey(20260222) /\ ~IsKey(20260221)
    /\ (ChallengeHandled /\ today = DaysFromCivil(2026, 2, 22)) =>
          AnsweredWithKey(20260222)
    /\ UncoveredDayGetsError

\* a challenge was handled on 2026-02-22
C5_Witness ==
    /\ ChallengeHandled
    /\ today = DaysFromCivil(2026, 2, 22)
    /\ Len(sent) = 1 /\ "response" \in DOMAIN sent[1].payload

\* C5 as stated: a challenge on 2026-02-22 is answered with the blob keyed
\* 20260220.
C5_AnsweredWithEarlierKey ==
    /\ IsKey(20260220) /\ IsKey(20260222)
    /\ (ChallengeHandled /\ today = DaysFromCivil(2026, 2, 22)) =>
          AnsweredWithKey(20260220)
    /\ UncoveredDayGetsError

-----------------------------------------------------------------------------
(* One sender's script on one connection: the order of intents *)

MaxTrace == 3

\* the sender's messages on connection 1
FromSender(ns, data) == Message(1, "sender-0", ns, data)

TraceMessages ==
    { FromSender(CASTV2_NS_MEDIA, d) :
        d \in { Json("LOAD") @@ [media |-> Media], Json("LOAD"),
                Json("PLAY"), Json("PAUSE"), Json("STOP"),
                Json("SEEK") @@ [currentTime |-> 30] } }
    \cup
    { FromSender(CASTV2_NS_RECEIVER, d) :
        d \in { Json("STOP"), Json("GET_STATUS"),
                Json("SET_VOLUME") @@ [volume |-> Volume] } }

\* CONNECT, LAUNCH, LOAD{contentId}, PLAY, SEEK{currentTime=30}, STOP and a
\* receiver GET_STATUS
Scenario ==
    << FromSender(CASTV2_NS_CONNECTION, Json("CONNECT")),
       FromSender(CASTV2_NS_RECEIVER, Json("LAUNCH") @@ [appId |-> DEFAULT_MEDIA_RECEIVER]),
       FromSender(CASTV2_NS_MEDIA, Json("LOAD") @@ [media |-> Media]),
       FromSender(CASTV2_NS_MEDIA, Json("PLAY")),
       FromSender(CASTV2_NS_MEDIA, Json("SEEK") @@ [currentTime |-> 30]),
       FromSender(CASTV2_NS_RECEIVER, Json("STOP")),
       FromSender(CASTV2_NS_RECEIVER, Json("GET_STATUS")) >>

\* the scenario, and every script of at most MaxTrace messages
Scripts ==
    { Scenario } \cup UNION { [1..n -> TraceMessages] : n \in 0..MaxTrace }

InitTrace ==
    /\ InitListener /\ InitDevice /\ InitReader /\ InitRegistryIdle
    /\ today = DefaultToday
    /\ sent = <<>> /\ emitted = <<>> /\ handled = <<>>
    /\ keepLog = TRUE /\ loads = <<>> /\ last = NoLast
    /\ script \in Scripts

\* the sender's connection is accepted
TraceConnect == clientCounter = 0 /\ Connect

\* the next message of the script arrives and is handled
TraceMessage ==
    /\ script # <<>>
    /\ HandleMessage(Head(script))
    /\ script' = Tail(script)
    /\ UNCHANGED deviceCalls

NextTrace ==
    \/ TraceConnect
    \/ TraceMessage
    \/ TimerFires

SpecTrace == InitTrace /\ [][NextTrace]_vars

\* the intent a message stands for: one per accepted LOAD, PLAY, PAUSE, SEEK,
\* STOP and SET_VOLUME with a volume, none for any other message
IntentOf(msg) ==
    LET d == msg.data
    IN  IF msg.namespace = CASTV2_NS_MEDIA /\ AcceptedLoad(msg)
        THEN <<[type |-> "load", contentId |-> d.media[1].contentId,
                contentType |-> d.media[1].contentType, streamType |-> "BUFFERED",
                autoplay |-> TRUE, currentTime |-> 0]>>
        ELSE IF msg.namespace = CASTV2_NS_MEDIA /\ d.type = "PLAY"
        THEN <<[type |-> "play"]>>
        ELSE IF msg.namespace = CASTV2_NS_MEDIA /\ d.type = "PAUSE"
        THEN <<[type |-> "pause"]>>
        ELSE IF msg.namespace = CASTV2_NS_MEDIA /\ d.type = "SEEK"
        THEN <<[type |-> "seek", currentTime |-> d.currentTime]>>
        ELSE IF msg.namespace \in {CASTV2_NS_MEDIA, CASTV2_NS_RECEIVER}
                /\ d.type = "STOP"
        THEN <<[type |-> "stop"]>>
        ELSE IF msg.namespace = CASTV2_NS_RECEIVER /\ d.type = "SET_VOLUME"
        THEN <<[type |-> "volume", level |-> d.volume[1].level,
                muted |-> d.volume[1].muted]>>
        ELSE <<>>

IntentsOf(msgs) == Concat([i \in 1..Len(msgs) |-> IntentOf(msgs[i])])

TypesOf(events) == [i \in 1..Len(events) |-> events[i].type]

\* C9: the intents emitted so far are those of the messages handled so far,
\* one per intent-producing message, in arrival order; after CONNECT, LAUNCH,
\* LOAD, PLAY, SEEK{30}, STOP and a receiver GET_STATUS they are load, play,
\* seek(30), stop and nothing else, and the reply to the GET_STATUS lists no
\* application.
C9_IntentsInArrivalOrder ==
    /\ emitted = IntentsOf(handled)
    /\ handled = Scenario =>
          /\ TypesOf(emitted) = <<"load", "play", "seek", "stop">>
          /\ emitted[3].currentTime = 30
          /\ last.op = "message" =>
                /\ OneReply(CASTV2_NS_RECEIVER)
                /\ sent[1].payload.type = "RECEIVER_STATUS"
                /\ sent[1].payload.applications = <<>>
          /\ ~appRunning

\* the scenario has been handled to its last message, the GET_STATUS
C9_Witness ==
    /\ handled = Scenario /\ script = <<>>
    /\ last.op = "message"
    /\ Len(emitted) = 4
    /\ Len(sent) = 1

-----------------------------------------------------------------------------
(* Identity store: operations *)

MaxIdentities == 2
MaxClock == 1

\* a generator that repeats itself
UuidRepeats(n) == <<"uuid", 1>>

\* uuidv4().replace(/-/g, ''): the n-th uuid drawn
Uuid(n) == <<"uuid", n>>

\* selfsigned.generate(attrs, ...): the n-th key pair and its certificate
Generate(n) ==
    [private |-> <<"private", n>>, public |-> <<"public", n>>, cert |-> <<"cert", n>>]

\* the record getOrCreateDevice stores for a new key
NewRecord(n, t) ==
    [deviceId |-> Uuid(n),
     certificate |-> [key |-> Generate(n).private, cert |-> Generate(n).cert],
     createdAt |-> t, lastSeen |-> t]

\* what getOrCreateDevice returns of a record
Identity(rec) == [deviceId |-> rec.deviceId, certificate |-> rec.certificate]

\* _save: the file is written; or mkdirSync / writeFileSync throws (caught and
\* logged) with the file as it was, or with the file already truncated
SaveOutcomes == {"written", "failed", "torn"}

Save(reg, outcome) ==
    CASE outcome = "written" -> [kind |-> "json", content |-> Stringify(reg)]
      [] outcome = "failed"  -> file
      [] outcome = "torn"    -> GarbageFile

\* a getOrCreateDevice that generates an identity at every call
RegistryAfterRegenerates(k) == (k :> NewRecord(nextIdentity + 1, now)) @@ registry

\* getOrCreateDevice: this._registry after the if / else
RegistryAfter(k) ==
    IF k \notin DOMAIN registry
    THEN (k :> NewRecord(nextIdentity + 1, now)) @@ registry
    ELSE [registry EXCEPT ![k].lastSeen = now]

Restrict(f, keys) == [k \in (DOMAIN f) \cap keys |-> f[k]]

\* a failed write that truncated the file voids what was persisted
AfterSave(p, outcome) ==
    IF outcome = "torn" THEN [k \in DOMAIN p |-> [p[k] EXCEPT !.torn = TRUE]] ELSE p

\* what the observer records of the identity store before a step
RegPre ==
    [identities |-> [k \in DOMAIN registry |-> Identity(registry[k])],
     nextIdentity |-> nextIdentity, fileKind |-> file.kind]

\* the session engine is not part of the identity store's steps
SessionUntouched ==
    /\ sent' = <<>> /\ emitted' = <<>> /\ handled' = <<>>
    /\ UNCHANGED <<listenerVars, frameVars, deviceVars, today, script, keepLog, loads,
                   lifecycle, deviceCalls>>

\* nor is the discovery of speakers
SessionIdle == SessionUntouched /\ UNCHANGED orch

\* DeviceRegistry.getOrCreateDevice(k, friendlyName), its _save ending as outcome
GetOrCreate(k, outcome) ==
    LET created == k \notin DOMAIN registry
    IN  /\ created => nextIdentity < MaxIdentities
        /\ registry' = RegistryAfter(k)
        /\ nextIdentity' = IF created THEN nextIdentity + 1 ELSE nextIdentity
        /\ file' = Save(registry', outcome)
        /\ given' = IF k \in DOMAIN given THEN given
                    ELSE (k :> Identity(registry'[k])) @@ given
        /\ persisted' =
              IF created /\ outcome = "written"
              THEN (k :> [identity |-> Identity(registry'[k]), torn |-> FALSE])
                       @@ persisted
              ELSE AfterSave(persisted, outcome)

\* a caller asks for the identity of speaker k
GetOrCreateDevice ==
    \E k \in RegKeys, outcome \in SaveOutcomes :
        /\ GetOrCreate(k, outcome)
        /\ last' = [op |-> "getOrCreateDevice", key |-> k,
                    ret |-> Identity(registry'[k]), pre |-> RegPre]
        /\ SessionIdle
        /\ UNCHANGED <<now, castDevices, tlsOptions, loadedFrom>>

\* CastDevice.start: the options it builds for CastProtocolServer from
\* this.certificate (set: the persisted certificate is used as pems)
StartOptions(certificate) ==
    [key  |-> Field(certificate, "private", Undefined),
     cert |-> Field(certificate, "cert", Undefined)]

\* Bridge._addCastDevice(speaker) for a speaker without a receiver: the
\* identity is fetched, the CastDevice constructed with it and started; the
\* receiver is kept when start() returns
AddCastDevice ==
    \E k \in RegKeys \ castDevices, outcome \in SaveOutcomes, started \in BOOLEAN :
        /\ GetOrCreate(k, outcome)
        /\ tlsOptions' = StartOptions(Identity(registry'[k]).certificate)
        /\ castDevices' = IF started THEN castDevices \cup {k} ELSE castDevices
        /\ last' = [op |-> "addCastDevice", key |-> k,
                    ret |-> Identity(registry'[k]), pre |-> RegPre]
        /\ SessionIdle
        /\ UNCHANGED <<now, loadedFrom>>

\* Bridge._removeCastDevice(speaker): the receiver is stopped and forgotten
RemoveCastDevice ==
    \E k \in castDevices :
        /\ castDevices' = castDevices \ {k}
        /\ last' = [op |-> "removeCastDevice", key |-> k]
        /\ SessionIdle
        /\ UNCHANGED <<registry, file, nextIdentity, now, tlsOptions, given,
                       persisted, loadedFrom>>

\* DeviceRegistry.removeDevice(k) of a registered key
RemoveDevice ==
    \E k \in DOMAIN registry, outcome \in SaveOutcomes :
        /\ registry' = Restrict(registry, RegKeys \ {k})
        /\ file' = Save(registry', outcome)
        /\ given' = Restrict(given, RegKeys \ {k})
        /\ persisted' = AfterSave(Restrict(persisted, RegKeys \ {k}), outcome)
        /\ last' = [op |-> "removeDevice", key |-> k]
        /\ SessionIdle
        /\ UNCHANGED <<nextIdentity, now, castDevices, tlsOptions, loadedFrom>>

\* DeviceRegistry.clear()
Clear ==
    \E outcome \in SaveOutcomes :
        /\ registry' = EmptyRegistry
        /\ file' = Save(registry', outcome)
        /\ given' = EmptyRegistry
        /\ persisted' = EmptyRegistry
        /\ last' = [op |-> "clear"]
        /\ SessionIdle
        /\ UNCHANGED <<nextIdentity, now, castDevices, tlsOptions, loadedFrom>>

\* The process restarts: new Bridge, new DeviceRegistry() reads the file
Restart ==
    /\ registry' = Load(file)
    /\ loadedFrom' = file.kind
    /\ castDevices' = {} /\ tlsOptions' = Undefined
    /\ given' = EmptyRegistry
    /\ last' = [op |-> "restart", pre |-> RegPre]
    /\ SessionIdle
    /\ UNCHANGED <<file, nextIdentity, now, persisted>>

\* time passes
Tick ==
    /\ now < MaxClock
    /\ now' = now + 1
    /\ last' = [op |-> "tick"]
    /\ SessionIdle
    /\ UNCHANGED <<registry, file, nextIdentity, castDevices, tlsOptions, given,
                   persisted, loadedFrom>>

\* new DeviceRegistry() at the first start: no file yet, or a file that
\* cannot be parsed
InitRegistry ==
    /\ InitListener /\ InitDevice /\ InitReader /\ InitLog(FALSE)
    /\ today = DefaultToday /\ script = <<>>
    /\ file \in {MissingFile, GarbageFile}
    /\ registry = Load(file) /\ loadedFrom = file.kind
    /\ nextIdentity = 0 /\ now = 0
    /\ castDevices = {} /\ tlsOptions = Undefined
    /\ given = EmptyRegistry /\ persisted = EmptyRegistry
    /\ deviceCalls = NoCalls
    /\ orch = NoOrch

\* the registry under every use of its interface
NextRegistry ==
    \/ GetOrCreateDevice
    \/ RemoveDevice
    \/ Clear
    \/ Restart
    \/ Tick

SpecRegistry == InitRegistry /\ [][NextRegistry]_vars

\* the registry as the bridge uses it: speakers found and lost, restarts
NextBridge ==
    \/ AddCastDevice
    \/ RemoveCastDevice
    \/ Restart
    \/ Tick

SpecBridge == InitRegistry /\ [][NextBridge]_vars

-----------------------------------------------------------------------------
(* Identity store: claims *)

\* the last step was a call of getOrCreateDevice, direct or by the bridge
Called == last.op \in {"getOrCreateDevice", "addCastDevice"}

\* C11: once this registry object has returned an identity for a key, every
\* later getOrCreateDevice of that key returns the same deviceId and
\* certificate (key and cert), however calls for other keys are interleaved,
\* as long as no removeDevice of the key and no clear() intervenes; and a call
\* for one key changes no other key's deviceId or certificate.
C11_IdempotentIdentity ==
    /\ \A k \in DOMAIN given :
          k \in DOMAIN registry /\ Identity(registry[k]) = given[k]
    /\ Called =>
          /\ last.ret = given[last.key]
          /\ \A k \in (DOMAIN last.pre.identities) \ {last.key} :
                /\ k \in DOMAIN registry
                /\ Identity(registry[k]) = last.pre.identities[k]

\* the key was asked for again after its identity had been returned and a
\* second key had been created, at a later time
C11_Witness ==
    /\ Called /\ last.key \in DOMAIN last.pre.identities
    /\ DOMAIN given = RegKeys
    /\ last.ret = given[last.key]
    /\ registry[last.key].lastSeen > registry[last.key].createdAt

\* what a freshly constructed DeviceRegistry holds
FreshRegistry == Load(file)

\* a fresh registry would hold identity id for key k
Survives(k, id) ==
    k \in DOMAIN FreshRegistry /\ Identity(FreshRegistry[k]) = id

\* C12 (as the code has it): an identity whose creating save succeeded is
\* what a freshly constructed DeviceRegistry returns for its key, through any
\* creations, last-seen updates and restarts, as long as no later save has
\* failed after truncating the file.
C12_IdentitySurvivesRestart ==
    /\ \A k \in DOMAIN persisted :
          ~persisted[k].torn => Survives(k, persisted[k].identity)
    /\ last.op = "restart" =>
          \A k \in DOMAIN persisted :
              ~persisted[k].torn =>
                  k \in DOMAIN registry
                      /\ Identity(registry[k]) = persisted[k].identity
    /\ (Called /\ last.key \in DOMAIN persisted /\ ~persisted[last.key].torn) =>
          last.ret = persisted[last.key].identity

\* after a restart the key was asked for and the identity created and saved
\* by the earlier process came back
C12_Witness ==
    /\ Called /\ last.key \in DOMAIN persisted /\ ~persisted[last.key].torn
    /\ last.key \in DOMAIN last.pre.identities
    /\ loadedFrom = "json"
    /\ last.ret = persisted[last.key].identity
    /\ last.pre.nextIdentity = nextIdentity

\* C12 as stated: an identity whose creating save succeeded is what a freshly
\* constructed DeviceRegistry returns, for any later creations, last-seen
\* updates and restarts.
C12_SurvivesAnySequence ==
    \A k \in DOMAIN persisted : Survives(k, persisted[k].identity)

\* C13: constructing the registry from a missing or unparseable file yields
\* an empty store (nothing fails), and a following getOrCreateDevice creates
\* and returns a fresh identity.
C13_CorruptFileGivesEmptyStore ==
    /\ (last.op = "restart" /\ last.pre.fileKind \in {"missing", "garbage"}) =>
          registry = EmptyRegistry /\ ~crashed
    /\ (last.op = "none" /\ file.kind \in {"missing", "garbage"}) =>
          registry = EmptyRegistry /\ ~crashed
    /\ (Called /\ last.key \notin DOMAIN last.pre.identities) =>
          /\ last.ret = Identity(NewRecord(last.pre.nextIdentity + 1, now))
          /\ last.key \in DOMAIN registry
          /\ Identity(registry[last.key]) = last.ret
          /\ \A k \in DOMAIN last.pre.identities :
                last.pre.identities[k].deviceId # last.ret.deviceId
          /\ \A k \in DOMAIN persisted \ {last.key} :
                persisted[k].identity.deviceId # last.ret.deviceId

\* a process that found its file unparseable, although an identity had been
\* saved before, created a new identity for the key
C13_Witness ==
    /\ Called /\ last.pre.identities = EmptyRegistry
    /\ loadedFrom = "garbage"
    /\ last.ret.deviceId = Uuid(2)
    /\ registry[last.key].deviceId = Uuid(2)

\* the last step was Bridge._addCastDevice
Added == last.op = "addCastDevice"

\* C14 as stated: the key and cert given to CastProtocolServer are the key and
\* cert of the receiver's identity record.
C14_ListenerUsesIdentity ==
    Added =>
        /\ tlsOptions.key = registry[last.key].certificate.key
        /\ tlsOptions.cert = registry[last.key].certificate.cert

\* C14 (what the code does): start() reads pems.private, which the record's
\* certificate {key, cert} does not have: the listener gets the record's cert
\* and an undefined key.
C14_ListenerKeyUndefined ==
    Added =>
        /\ tlsOptions.key = Undefined
        /\ tlsOptions.cert = registry[last.key].certificate.cert

\* a receiver was added for a speaker whose identity was loaded from the file
C14_Witness ==
    /\ Added /\ last.key \in DOMAIN last.pre.identities
    /\ loadedFrom = "json"
    /\ last.key \in castDevices
    /\ tlsOptions.key = Undefined
    /\ registry[last.key].certificate.key = <<"private", 1>>

-----------------------------------------------------------------------------
(* Connection control: the listener's API and the control namespaces *)

\* the ids a caller may pass to send: every id the counter can give, and one
\* it never gives
SendTargets == 1..(MaxClients + 1)

\* the ids a sender addresses: the platform receiver or the application
Destinations == {ReceiverId, TransportId}

\* CastProtocolServer.send called with any connection id
ServerSend ==
    \E c \in SendTargets, src \in Senders :
        /\ ~crashed
        /\ sent' = Send(<<>>, c, ReceiverId, src, CASTV2_NS_HEARTBEAT, [type |-> "PONG"])
        /\ emitted' = Log(emitted) /\ handled' = Log(handled)
        /\ last' = [op |-> "send", clientId |-> c, live |-> (c \in clients),
                    pre |-> [clients |-> clients, sockState |-> sockState]]
        /\ UNCHANGED <<listenerVars, frameVars, deviceVars, today, script, keepLog,
                       loads, lifecycle, bridgeVars>>

\* a sender writes a connection or heartbeat message to either destination
ControlMessage ==
    \E c \in clients, src \in Senders, dst \in Destinations,
       ns \in {CASTV2_NS_CONNECTION, CASTV2_NS_HEARTBEAT} :
        \E data \in PayloadsOf(ns) :
            /\ HandleMessage([Message(c, src, ns, data) EXCEPT !.destinationId = dst])
            /\ UNCHANGED <<script, deviceCalls>>

NextControl ==
    \/ Connect
    \/ ControlMessage
    \/ Disconnect
    \/ ServerSend
    \/ Stop

SpecControl == Init /\ [][NextControl]_vars

\* the 'close' event of a socket that close() destroyed
SocketCloseEvent(c) ==
    /\ c <= clientCounter
    /\ sockState[c] = "destroyed"
    /\ DisconnectOf(c)

\* Node emits 'close' for every destroyed socket; a peer may keep an open
\* socket open for ever
SpecControlFair ==
    /\ Init
    /\ [][NextControl]_vars
    /\ \A c \in 1..MaxClients : WF_vars(SocketCloseEvent(c))

-----------------------------------------------------------------------------
(* Connection control: claims *)

\* the last step called send with an id that is not a live connection
SentToUnknown == last.op = "send" /\ ~last.live

\* C15: send() to a connection id that is not in the live set (it never
\* existed, it has disconnected, or close() was called) writes nothing, does
\* not fault, and leaves the set of live connections as it was.
C15_SendToUnknownIsNoOp ==
    SentToUnknown =>
        /\ sent = <<>>
        /\ ~crashed
        /\ clients = last.pre.clients
        /\ sockState = last.pre.sockState

\* send() was called with the id of a connection that has disconnected, while
\* another connection is live
C15_Witness ==
    /\ SentToUnknown
    /\ last.clientId <= clientCounter
    /\ sockState[last.clientId] = "closed"
    /\ listening /\ clients # {}
    /\ sent = <<>>

\* send() was called with an id the listener never gave
C15_NeverExisted == SentToUnknown /\ last.clientId > clientCounter

\* send() was called after close() with the id of a connection close() destroyed
C15_AfterClose ==
    /\ SentToUnknown /\ ~listening
    /\ last.clientId <= clientCounter
    /\ sockState[last.clientId] = "destroyed"

\* connection c was accepted
Connected(c) == lifecycle[c].connects >= 1

\* the 'disconnect' event of connection c was emitted
Disconnected(c) == lifecycle[c].disconnects >= 1

\* C16: after CastProtocolServer.close() the set of live connections is empty
\* and stays empty, no connection is accepted any more, and every connection
\* that was open when close() ran gets its disconnect event, once: the
\* device's session map becomes empty.
C16_CloseDisconnectsAll ==
    /\ [](~listening => clients = {})
    /\ [][~listening => (listening' = FALSE /\ clientCounter' = clientCounter)]_vars
    /\ [](\A c \in 1..MaxClients : lifecycle[c].disconnects <= 1)
    /\ \A c \in 1..MaxClients :
          (~listening /\ Connected(c)) ~> (lifecycle[c].disconnects = 1)
    /\ ~listening ~> (DOMAIN sessions = {})

\* the 'close' event of a socket that close() destroyed was the last one
\* outstanding: every accepted connection has its disconnect and no session
\* is left
C16_Witness ==
    /\ ~listening /\ clients = {}
    /\ last.op = "disconnect"
    /\ clientCounter = 2
    /\ \A c \in 1..clientCounter : lifecycle[c].disconnects = 1
    /\ DOMAIN sessions = {}

\* C17: for every connection id the listener emits connect once, then message
\* events, then disconnect once: a message event is emitted only between the
\* connect and the disconnect of its id, and an id is never given to a later
\* connection.
C17_ConnectionLifecycle ==
    /\ \A c \in 1..MaxClients :
          /\ lifecycle[c].connects <= 1
          /\ lifecycle[c].disconnects <= lifecycle[c].connects
          /\ Connected(c) <=> c <= clientCounter
          /\ c \in clients => Connected(c) /\ ~Disconnected(c)
    /\ last.op = "message" =>
          Connected(last.msg.clientId) /\ ~Disconnected(last.msg.clientId)
    /\ last.op = "connect" =>
          lifecycle[last.clientId] = [connects |-> 1, disconnects |-> 0, bound |-> NoSender]
    /\ last.op = "disconnect" =>
          lifecycle[last.clientId].connects = 1 /\ lifecycle[last.clientId].disconnects = 1

\* the first connection was accepted, sent a CONNECT and has disconnected; a
\* later connection, with another id, is live
C17_Witness ==
    /\ last.op = "disconnect" /\ last.clientId = 1
    /\ lifecycle[1] = [connects |-> 1, disconnects |-> 1, bound |-> "sender-0"]
    /\ 2 \in clients
    /\ lifecycle[2].connects = 1 /\ lifecycle[2].disconnects = 0

\* the last step handled a message of the connection namespace
ConnectionHandled == last.op = "message" /\ last.msg.namespace = CASTV2_NS_CONNECTION

\* C18: after every event the device holds a session record for connection c
\* exactly when c was connected and has not disconnected; the record's
\* senderId is the sourceId of the last CONNECT received on c, or null; a
\* connection message of another type leaves the records as they were, and
\* no connection message is answered.
C18_SessionsTrackConnections ==
    /\ DOMAIN sessions = {c \in 1..MaxClients : Connected(c) /\ ~Disconnected(c)}
    /\ \A c \in DOMAIN sessions : sessions[c] = lifecycle[c].bound
    /\ ConnectionHandled =>
          /\ sent = <<>>
          /\ ~IsConnect(last.msg) => sessions = last.pre.sessions

\* a CONNECT from a second sender arrived on a connection already bound to
\* the first: the record names the second; the other connection has
\* disconnected and has no record
C18_Witness ==
    /\ ConnectionHandled /\ IsConnect(last.msg)
    /\ last.msg.sourceId = "sender-1"
    /\ last.pre.sessions[last.msg.clientId] = "sender-0"
    /\ sessions[last.msg.clientId] = "sender-1"
    /\ \E c \in 1..clientCounter : Disconnected(c) /\ c \notin DOMAIN sessions

\* a CLOSE from another sender arrived on a bound connection
C18_OtherTypeIgnored ==
    /\ ConnectionHandled /\ last.msg.data.json /\ last.msg.data.type = "CLOSE"
    /\ last.msg.sourceId = "sender-1"
    /\ sessions[last.msg.clientId] = "sender-0"

\* the last step handled a message of the heartbeat namespace
HeartbeatHandled == last.op = "message" /\ last.msg.namespace = CASTV2_NS_HEARTBEAT

\* the last step handled a heartbeat PING
PingHandled == Handled(CASTV2_NS_HEARTBEAT, "PING")

\* the last step wrote one PONG, from `source`, to the connection and sender
\* of the message it handled
OnePong(source) ==
    /\ OneReply(CASTV2_NS_HEARTBEAT)
    /\ sent[1].payload = [type |-> "PONG"]
    /\ sent[1].sourceId = source

\* C19: every heartbeat PING is answered at once with exactly one PONG on the
\* same connection and namespace, whose destinationId is the PING's sourceId
\* and whose sourceId is the PING's destinationId; any other heartbeat message
\* is not answered.
C19_PongReversesEnvelope ==
    HeartbeatHandled =>
        IF PingHandled THEN OnePong(last.msg.destinationId) ELSE sent = <<>>

\* C19, as the code behaves: the PONG goes to the PING's sourceId and always
\* names receiver-0 as its source, whatever destination the PING named.
C19_PongFromReceiver ==
    HeartbeatHandled =>
        IF PingHandled THEN OnePong(ReceiverId) ELSE sent = <<>>

\* a PING addressed to the application's transport id was answered by a PONG
\* whose source is receiver-0
C19_Witness ==
    /\ PingHandled
    /\ last.msg.destinationId = TransportId
    /\ OnePong(ReceiverId)

-----------------------------------------------------------------------------
(* Session engine: application launch *)

\* the last step handled a receiver LAUNCH
LaunchHandled == Handled(CASTV2_NS_RECEIVER, "LAUNCH")

\* C20: every LAUNCH, in whatever state it is handled, leaves appRunning true,
\* a sessionId different from the one before and no media status record, and
\* is answered with one receiver status that lists the application with the
\* new sessionId.
C20_LaunchStartsNewSession ==
    LaunchHandled =>
        /\ appRunning
        /\ sessionId # last.pre.sessionId
        /\ mediaStatus = <<>>
        /\ OneReply(CASTV2_NS_RECEIVER)
        /\ sent[1].payload.type = "RECEIVER_STATUS"
        /\ Len(sent[1].payload.applications) = 1
        /\ sent[1].payload.applications[1].sessionId = sessionId

\* a LAUNCH was handled while the application was running with a media
\* status record: the record is gone and the reply carries the new sessionId
C20_Witness ==
    /\ LaunchHandled
    /\ last.pre.appRunning
    /\ last.pre.mediaStatus # <<>>
    /\ appRunning /\ mediaStatus = <<>>
    /\ sent[1].payload.applications[1].sessionId = sessionId
    /\ sessionId # last.pre.sessionId

-----------------------------------------------------------------------------
(* Session engine: every request of the receiver and media namespaces *)

\* a sender writes any payload of the receiver or media namespace: requests
\* with and without their optional fields, unknown types, text that does not
\* parse
AnyRequest ==
    OnMessageIn({"sender-0"}, {CASTV2_NS_RECEIVER, CASTV2_NS_MEDIA}, FALSE)

\* the state after the first connection was accepted (Init, then Connect),
\* the intents and messages of the run being kept or not
InitAccepted(keep) ==
    /\ clients = {1} /\ clientCounter = 1 /\ sockState = <<"open">> /\ listening = TRUE
    /\ lifecycle = [NoLifecycle EXCEPT ![1].connects = 1]
    /\ server = TRUE /\ sessions = <<NoSender>>
    /\ appRunning = FALSE /\ sessionId = 0
    /\ mediaStatus = <<>> /\ mediaRequestId = 0
    /\ timers = <<>> /\ crashed = FALSE
    /\ InitReader /\ InitRegistryIdle
    /\ today = DefaultToday /\ script = <<>>
    /\ sent = <<>> /\ emitted = <<>> /\ handled = <<>>
    /\ keepLog = keep /\ loads = <<>>
    /\ last = [op |-> "connect", clientId |-> 1]

InitConnected == InitAccepted(FALSE)

\* one connection, which stays open: what further connections and a
\* disconnect change is checked under Spec, SpecControl and SpecShared
NextMedia ==
    \/ AnyRequest
    \/ TimerFires

SpecMedia == InitConnected /\ [][NextMedia]_vars

-----------------------------------------------------------------------------
(* Media namespace: claims *)

\* the last step handled a message of the media namespace of type t
MediaHandled(t) == Handled(CASTV2_NS_MEDIA, t)

\* the last step handled a LOAD that has no media object or no media.contentId
DroppedLoad == MediaHandled("LOAD") /\ ~AcceptedLoad(last.msg)

\* the app and media state is what it was before the last step
StateKept ==
    /\ appRunning = last.pre.appRunning
    /\ sessionId = last.pre.sessionId
    /\ mediaStatus = last.pre.mediaStatus
    /\ mediaRequestId = last.pre.mediaRequestId

\* C21: a LOAD without a media object or without media.contentId is dropped:
\* nothing is sent, no intent is emitted, no delayed push is scheduled, and the
\* media status record, its player state and the mediaSessionId counter are
\* what they were.
C21_InvalidLoadDropped ==
    DroppedLoad =>
        /\ sent = <<>>
        /\ emitted = <<>>
        /\ timers = last.pre.timers
        /\ StateKept

\* a LOAD whose media object has no contentId was handled while a record in
\* state PLAYING existed
C21_Witness ==
    /\ DroppedLoad
    /\ Field(last.msg.data, "media", <<>>) # <<>>
    /\ PlayerStateOf(last.pre.mediaStatus) = "PLAYING"
    /\ mediaStatus = last.pre.mediaStatus
    /\ sent = <<>>

\* a LOAD without a media object was handled
C21_NoMediaObject == DroppedLoad /\ Field(last.msg.data, "media", <<>>) = <<>>

\* the media requests that command the player, each with its intent and the
\* player state it asks for
Commands ==
    { [type |-> "PLAY",  intent |-> "play",  state |-> "PLAYING"],
      [type |-> "PAUSE", intent |-> "pause", state |-> "PAUSED"],
      [type |-> "STOP",  intent |-> "stop",  state |-> "IDLE"] }

\* the last step wrote one MEDIA_STATUS frame, to the connection and sender of
\* the message it handled
OneMediaStatus ==
    /\ OneReply(CASTV2_NS_MEDIA)
    /\ sent[1].payload.type = "MEDIA_STATUS"

\* the player state a MEDIA_STATUS reply reports ("none": its list is empty)
Reported == PlayerStateOf(sent[1].payload.status)

\* C22: each media PLAY, PAUSE and STOP, in any receiver state, emits exactly
\* one play, pause or stop intent and is answered in the same step with
\* exactly one MEDIA_STATUS that reports PLAYING, PAUSED or IDLE.
C22_CommandsReportState ==
    \A c \in Commands :
        MediaHandled(c.type) =>
            /\ emitted = <<[type |-> c.intent]>>
            /\ OneMediaStatus
            /\ Reported = c.state

\* C22, amended: the reply reports the matching state when a media status
\* record exists (and the record then holds it); with no record the reply's
\* status list is empty.
C22_CommandsReportStateOfRecord ==
    \A c \in Commands :
        MediaHandled(c.type) =>
            /\ emitted = <<[type |-> c.intent]>>
            /\ OneMediaStatus
            /\ IF last.pre.mediaStatus # <<>>
               THEN Reported = c.state /\ PlayerStateOf(mediaStatus) = c.state
               ELSE sent[1].payload.status = <<>> /\ mediaStatus = <<>>

\* a PAUSE was handled while the record was PLAYING, and reported PAUSED
C22_Witness ==
    /\ MediaHandled("PAUSE")
    /\ PlayerStateOf(last.pre.mediaStatus) = "PLAYING"
    /\ Reported = "PAUSED"
    /\ emitted = <<[type |-> "pause"]>>

\* a PLAY was handled before any LOAD: its reply lists no status
C22_NoRecord ==
    /\ MediaHandled("PLAY")
    /\ last.pre.mediaStatus = <<>>
    /\ sent[1].payload.status = <<>>

\* the last step emitted the one seek intent of the SEEK it handled
SeekEmitted ==
    emitted = <<[type |-> "seek",
                 currentTime |-> Field(last.msg.data, "currentTime", 0)]>>

\* C23: SEEK does not change the player state: in every player state s,
\* handling a media SEEK emits a seek intent with the requested currentTime,
\* leaves the player state s, and the reply reports s.
C23_SeekKeepsState ==
    MediaHandled("SEEK") =>
        /\ SeekEmitted
        /\ OneMediaStatus
        /\ PlayerStateOf(mediaStatus) = PlayerStateOf(last.pre.mediaStatus)
        /\ Reported = PlayerStateOf(last.pre.mediaStatus)

\* C23, as the code behaves: a SEEK emits the seek intent and, when a record
\* exists, sets its player state to PLAYING and reports PLAYING, whatever the
\* state was; nothing else of the record changes.
C23_SeekForcesPlaying ==
    MediaHandled("SEEK") =>
        /\ SeekEmitted
        /\ OneMediaStatus
        /\ IF last.pre.mediaStatus # <<>>
           THEN /\ mediaStatus =
                      <<[last.pre.mediaStatus[1] EXCEPT !.playerState = "PLAYING"]>>
                /\ Reported = "PLAYING"
           ELSE mediaStatus = <<>> /\ sent[1].payload.status = <<>>

\* a SEEK was handled while the player was PAUSED: the record and the reply
\* say PLAYING
C23_Witness ==
    /\ MediaHandled("SEEK")
    /\ PlayerStateOf(last.pre.mediaStatus) = "PAUSED"
    /\ PlayerStateOf(mediaStatus) = "PLAYING"
    /\ Reported = "PLAYING"

\* C24: the reply to a media GET_STATUS reports the current player state when
\* a media status record exists and player state IDLE when none exists;
\* handling it emits no intent and changes no receiver state.
C24_GetStatusReportsStateOrIdle ==
    MediaHandled("GET_STATUS") =>
        /\ OneMediaStatus
        /\ Reported = IF last.pre.mediaStatus # <<>>
                      THEN last.pre.mediaStatus[1].playerState
                      ELSE "IDLE"
        /\ emitted = <<>>
        /\ StateKept

\* C24, as the code behaves: the reply lists the record as it is, and lists
\* nothing (no player state, not IDLE) when there is no record; no intent is
\* emitted and no state changes.
C24_GetStatusListsRecord ==
    MediaHandled("GET_STATUS") =>
        /\ OneMediaStatus
        /\ sent[1].payload.status = last.pre.mediaStatus
        /\ emitted = <<>>
        /\ StateKept
        /\ timers = last.pre.timers

\* a GET_STATUS was handled with no record: the status list of the reply is
\* empty
C24_Witness ==
    /\ MediaHandled("GET_STATUS")
    /\ last.pre.mediaStatus = <<>>
    /\ OneMediaStatus
    /\ sent[1].payload.status = <<>>

\* a GET_STATUS was handled while the record was PAUSED, and reported PAUSED
C24_WithRecord ==
    /\ MediaHandled("GET_STATUS")
    /\ PlayerStateOf(last.pre.mediaStatus) = "PAUSED"
    /\ Reported = "PAUSED"

\* the last step handled a SET_VOLUME of the receiver or media namespace
SetVolumeHandled ==
    Handled(CASTV2_NS_RECEIVER, "SET_VOLUME") \/ MediaHandled("SET_VOLUME")

\* the volume object of the SET_VOLUME handled last (<<>>: it has none)
Requested == Field(last.msg.data, "volume", <<>>)

\* the last step wrote one status frame of the namespace of its request
OneStatus ==
    /\ OneReply(last.msg.namespace)
    /\ sent[1].payload.type = IF last.msg.namespace = CASTV2_NS_MEDIA
                              THEN "MEDIA_STATUS" ELSE "RECEIVER_STATUS"

\* C25: a SET_VOLUME of the receiver or media namespace emits one volume
\* intent carrying the level and muted flag it asks for, is answered with one
\* status reply, and changes no app or media state: appRunning, sessionId,
\* the media status record and its player state are as before.
C25_SetVolumeKeepsState ==
    SetVolumeHandled =>
        /\ Requested # <<>> =>
              emitted = <<[type |-> "volume", level |-> Requested[1].level,
                           muted |-> Requested[1].muted]>>
        /\ OneStatus
        /\ StateKept
        /\ timers = last.pre.timers

\* a media SET_VOLUME with a volume was handled while the app ran and the
\* player was PAUSED
C25_Witness ==
    /\ MediaHandled("SET_VOLUME")
    /\ Requested # <<>>
    /\ last.pre.appRunning
    /\ PlayerStateOf(last.pre.mediaStatus) = "PAUSED"
    /\ PlayerStateOf(mediaStatus) = "PAUSED"
    /\ Len(emitted) = 1 /\ emitted[1].type = "volume"

\* a receiver SET_VOLUME with a volume was handled while the player was PLAYING
C25_ReceiverNamespace ==
    /\ Handled(CASTV2_NS_RECEIVER, "SET_VOLUME")
    /\ Requested # <<>>
    /\ PlayerStateOf(mediaStatus) = "PLAYING"
    /\ Len(emitted) = 1

\* a SET_VOLUME without a volume object was answered and emitted nothing
C25_NoVolumeObject ==
    /\ SetVolumeHandled /\ Requested = <<>>
    /\ emitted = <<>> /\ Len(sent) = 1

-----------------------------------------------------------------------------
(* Receiver status and shared state: claims *)

\* the frames of the last step that carry a receiver status
ReceiverStatuses == { i \in DOMAIN sent : sent[i].payload.type = "RECEIVER_STATUS" }

\* C26: every receiver status sent lists exactly one application (app id
\* CC1AD845, isIdleScreen false, the current sessionId, the device's
\* transportId) when appRunning is true and no application when it is false,
\* whatever appId the LAUNCH asked for.
C26_StatusListsTheOneApp ==
    \A i \in ReceiverStatuses :
        sent[i].payload.applications =
            IF appRunning
            THEN <<[appId |-> "CC1AD845", isIdleScreen |-> FALSE,
                    sessionId |-> sessionId, transportId |-> TransportId]>>
            ELSE <<>>

\* a LAUNCH asking for YouTube was answered with a status that lists CC1AD845
C26_Witness ==
    /\ LaunchHandled
    /\ last.msg.data.appId = "YouTube"
    /\ ReceiverStatuses = {1}
    /\ sent[1].payload.applications[1].appId = "CC1AD845"
    /\ sent[1].payload.applications[1].sessionId = sessionId

\* a receiver GET_STATUS after a STOP was answered with an empty list
C26_NotRunning ==
    /\ Handled(CASTV2_NS_RECEIVER, "GET_STATUS")
    /\ ~appRunning /\ sessionId > 0
    /\ ReceiverStatuses = {1}
    /\ sent[1].payload.applications = <<>>

\* the requests that produce and read the shared state
SharedPayloads(ns) ==
    IF ns = CASTV2_NS_RECEIVER
    THEN { Json("LAUNCH") @@ [appId |-> "YouTube"], Json("GET_STATUS") }
    ELSE { Json("LOAD") @@ [media |-> Media], Json("PAUSE"), Json("GET_STATUS") }

\* a sender writes one of them on any live connection
SharedRequest ==
    \E c \in clients, ns \in {CASTV2_NS_RECEIVER, CASTV2_NS_MEDIA} :
        \E data \in SharedPayloads(ns) :
            /\ HandleMessage(Message(c, "sender-0", ns, data))
            /\ UNCHANGED <<script, deviceCalls>>

NextShared ==
    \/ Connect
    \/ SharedRequest
    \/ TimerFires
    \/ Disconnect

SpecShared == Init /\ [][NextShared]_vars

\* this._appRunning, _sessionId, _mediaStatus, _mediaRequestId: one of each
\* per CastDevice
appVars == <<appRunning, sessionId, mediaStatus, mediaRequestId>>

\* the step is a 'connect' or a 'disconnect' event
ConnectionEvent == last'.op \in {"connect", "disconnect"}

\* C27: app and media state belongs to the receiver, not to a connection: a
\* connect or disconnect event (also the disconnect of the connection that sent
\* the LAUNCH or the LOAD) leaves appRunning, sessionId, the media status
\* record and the mediaSessionId counter as they were, and a status request on
\* any connection is answered with the receiver's state, whichever connection
\* produced it.
C27_StateSharedAcrossConnections ==
    /\ [][ConnectionEvent => UNCHANGED appVars]_vars
    /\ [](MediaHandled("GET_STATUS") =>
             /\ OneMediaStatus
             /\ sent[1].payload.status = mediaStatus)
    /\ [](Handled(CASTV2_NS_RECEIVER, "GET_STATUS") =>
             /\ OneReply(CASTV2_NS_RECEIVER)
             /\ sent[1].payload.applications =
                    ReceiverStatus(appRunning, sessionId, 0).applications)

\* the second connection asked for the media status while the record loaded
\* by the first connection was BUFFERING, and was told BUFFERING
C27_Witness ==
    /\ MediaHandled("GET_STATUS")
    /\ last.msg.clientId = 2
    /\ timers # <<>> /\ timers[Len(timers)].clientId = 1
    /\ appRunning
    /\ Reported = "BUFFERING"

\* the connection that sent the LOAD has disconnected; the record it loaded
\* is still there
C27_LoaderDisconnected ==
    /\ last.op = "disconnect" /\ last.clientId = 1
    /\ timers # <<>> /\ timers[Len(timers)].clientId = 1
    /\ PlayerStateOf(mediaStatus) = "BUFFERING"
    /\ appRunning

-----------------------------------------------------------------------------
(* Bridge: intents forwarded to the speaker *)

\* the calls of speaker.device the Bridge makes
DeviceOps ==
    {"setAVTransportURI", "play", "pause", "stop", "seek", "setVolume", "setMuted"}

\* `await` of each call in turn inside one try block: the calls made, up to
\* and including the first that fails
RECURSIVE Attempt(_, _)
Attempt(ops, fails) ==
    IF ops = <<>> THEN <<>>
    ELSE IF Head(ops) \in fails
         THEN <<[op |-> Head(ops), failed |-> TRUE]>>
         ELSE <<[op |-> Head(ops), failed |-> FALSE]>> \o Attempt(Tail(ops), fails)

\* try { ... } catch (err) { log.error(...) }: the rejection stays in the handler
Caught(calls) == [calls |-> calls, rejected |-> FALSE]

\* a handler whose awaits are outside any try block
Uncaught(calls) ==
    [calls |-> calls, rejected |-> (\E i \in DOMAIN calls : calls[i].failed)]

\* Bridge._onLoad: setAVTransportURI; when it fails, play(uri) if autoplay
OnLoad(evt, fails) ==
    Caught(IF "setAVTransportURI" \in fails
           THEN Attempt(<<"setAVTransportURI">>, fails)
                \o (IF evt.autoplay THEN Attempt(<<"play">>, fails) ELSE <<>>)
           ELSE Attempt(<<"setAVTransportURI">>, fails))

\* a _onPlay without its try block
OnPlayUncaught(fails) == Uncaught(Attempt(<<"play">>, fails))

\* Bridge._onPlay
OnPlay(fails) == Caught(Attempt(<<"play">>, fails))

\* Bridge._onPause
OnPause(fails) == Caught(Attempt(<<"pause">>, fails))

\* Bridge._onStop
OnStop(fails) == Caught(Attempt(<<"stop">>, fails))

\* Bridge._onSeek
OnSeek(evt, fails) == Caught(Attempt(<<"seek">>, fails))

\* Bridge._onVolume: setVolume if a level is given, then setMuted if a flag is
OnVolume(evt, fails) ==
    Caught(Attempt((IF "level" \in DOMAIN evt THEN <<"setVolume">> ELSE <<>>)
                   \o (IF "muted" \in DOMAIN evt THEN <<"setMuted">> ELSE <<>>),
                   fails))

\* the listeners _addCastDevice registers on the CastDevice
OnIntent(evt, fails) ==
    CASE evt.type = "load"   -> OnLoad(evt, fails)
      [] evt.type = "play"   -> OnPlay(fails)
      [] evt.type = "pause"  -> OnPause(fails)
      [] evt.type = "stop"   -> OnStop(fails)
      [] evt.type = "seek"   -> OnSeek(evt, fails)
      [] evt.type = "volume" -> OnVolume(evt, fails)

\* the calls a handler can make for an intent
OpsOf(evt) ==
    CASE evt.type = "load"   -> {"setAVTransportURI", "play"}
      [] evt.type = "play"   -> {"play"}
      [] evt.type = "pause"  -> {"pause"}
      [] evt.type = "stop"   -> {"stop"}
      [] evt.type = "seek"   -> {"seek"}
      [] evt.type = "volume" -> {"setVolume", "setMuted"}

\* A request of the life cycle is handled by a CastDevice the Bridge listens
\* to: the intent it emits, if any, runs the Bridge's handler, in which any
\* set of the calls on the speaker fails.
BridgedRequest ==
    \E c \in clients, ns \in {CASTV2_NS_RECEIVER, CASTV2_NS_MEDIA} :
        \E data \in CorePayloads(ns) :
            /\ HandleMessage(Message(c, "sender-0", ns, data))
            /\ UNCHANGED script
            /\ IF emitted' = <<>>
               THEN deviceCalls' = NoCalls
               ELSE \E fails \in SUBSET OpsOf(emitted'[1]) :
                        deviceCalls' = OnIntent(emitted'[1], fails)

NextDownstream ==
    \/ BridgedRequest
    \/ TimerFires

SpecDownstream == InitConnected /\ [][NextDownstream]_vars

-----------------------------------------------------------------------------
(* Bridge: claims *)

\* the last step handled a request whose intent reached the Bridge
Forwarded == last.op = "message" /\ emitted # <<>>

\* the calls of the last step that failed
FailedCalls == { deviceCalls.calls[i].op : i \in { j \in DOMAIN deviceCalls.calls :
                                                      deviceCalls.calls[j].failed } }

\* the reply and the state after the last request are those of its handler
AsIfSucceeded ==
    /\ C6_ReceiverStopClearsAll
    /\ LoadRepliesBuffering
    /\ C22_CommandsReportStateOfRecord
    /\ C23_SeekForcesPlaying
    /\ C25_SetVolumeKeepsState

\* C28: whichever of the calls on the speaker fail (setAVTransportURI, play,
\* pause, stop, seek, setVolume, setMuted), the reply to the request is sent,
\* the connection stays open, no exception leaves the Bridge's handler, and
\* the app and media state is what the request's handler produces.
C28_DownstreamFailuresContained ==
    Forwarded =>
        /\ ~deviceCalls.rejected
        /\ ~crashed
        /\ last.msg.clientId \in clients
        /\ sockState[last.msg.clientId] = "open"
        /\ OneStatus
        /\ AsIfSucceeded

\* a LOAD was handled, setAVTransportURI and the fallback play both failed,
\* and BUFFERING was sent
C28_Witness ==
    /\ Forwarded
    /\ MediaHandled("LOAD")
    /\ FailedCalls = {"setAVTransportURI", "play"}
    /\ OneMediaStatus /\ Reported = "BUFFERING"
    /\ last.msg.clientId \in clients

\* setVolume failed (setMuted was then not tried) and the status was sent
C28_VolumeFailed ==
    /\ Forwarded /\ SetVolumeHandled
    /\ FailedCalls = {"setVolume"} /\ Len(deviceCalls.calls) = 1
    /\ OneStatus

-----------------------------------------------------------------------------
(* Session engine: messages it does not understand *)

\* per namespace: the requests a sender opens a session with, a type the
\* handler has no case for, and text JSON.parse throws on
ErrorPayloads(ns) ==
    CASE ns = CASTV2_NS_CONNECTION -> { Json("CONNECT"), Json("FOO"), BadJson }
      [] ns = CASTV2_NS_HEARTBEAT  -> { Json("PING"), Json("FOO"), BadJson }
      [] ns = CASTV2_NS_RECEIVER   ->
            { Json("LAUNCH") @@ [appId |-> "YouTube"], Json("GET_STATUS"),
              Json("FOO"), BadJson }
      [] ns = CASTV2_NS_MEDIA      ->
            { Json("LOAD") @@ [media |-> Media], Json("GET_STATUS"),
              Json("FOO"), BadJson }
      [] OTHER                     -> PayloadsOf(ns)

\* the text namespaces _onMessage has a case for, and one it has none for
TextNamespaces == Namespaces \ {CASTV2_NS_DEVICEAUTH}

\* the types each text handler has a case for
KnownTypes(ns) ==
    CASE ns = CASTV2_NS_CONNECTION -> {"CONNECT"}
      [] ns = CASTV2_NS_HEARTBEAT  -> {"PING"}
      [] ns = CASTV2_NS_RECEIVER   -> {"GET_STATUS", "LAUNCH", "STOP", "SET_VOLUME"}
      [] ns = CASTV2_NS_MEDIA      ->
            {"LOAD", "PLAY", "PAUSE", "STOP", "SEEK", "GET_STATUS", "SET_VOLUME"}
      [] OTHER                     -> {}

\* a message of an unknown namespace, of an unknown type, or whose text is
\* not JSON
Malformed(msg) ==
    \/ ~msg.data.json
    \/ msg.data.type \notin KnownTypes(msg.namespace)

\* the sender writes a message, good or bad, on its connection; the run is
\* followed for MaxTrace messages
ErrorMessage ==
    /\ Len(handled) < MaxTrace
    /\ \E ns \in TextNamespaces :
          \E data \in ErrorPayloads(ns) :
              /\ HandleMessage(Message(1, "sender-0", ns, data))
              /\ UNCHANGED <<script, deviceCalls>>

NextErrors ==
    \/ ErrorMessage
    \/ TimerFires

SpecErrors == InitAccepted(TRUE) /\ [][NextErrors]_vars

\* the last step handled a malformed message
MalformedHandled == last.op = "message" /\ Malformed(last.msg)

\* a malformed message was handled before the last one
AfterMalformed ==
    /\ last.op = "message"
    /\ \E i \in 1..(Len(handled) - 1) : Malformed(handled[i])

\* the last message, if it is a request, was answered as its handler answers
HandledNormally ==
    /\ PingHandled => OnePong(ReceiverId)
    /\ Handled(CASTV2_NS_RECEIVER, "GET_STATUS") => OneStatus
    /\ MediaHandled("GET_STATUS") =>
          OneMediaStatus /\ sent[1].payload.status = mediaStatus
    /\ C20_LaunchStartsNewSession
    /\ LoadRepliesBuffering
    /\ (ConnectionHandled /\ IsConnect(last.msg)) =>
          sessions[last.msg.clientId] = last.msg.sourceId

\* C29: a message of an unknown namespace, of an unknown type in a known text
\* namespace, or whose text is not well-formed JSON is not answered, emits no
\* intent and changes no session, app or media state; its connection stays
\* open, and the messages that follow on it are handled as they would be.
C29_MalformedMessageIgnored ==
    /\ MalformedHandled =>
          /\ sent = <<>>
          /\ StateKept
          /\ sessions = last.pre.sessions
          /\ timers = last.pre.timers
          /\ last.msg.clientId \in clients
          /\ sockState[last.msg.clientId] = "open"
          /\ ~crashed
    /\ Len(emitted) = Len(loads)
    /\ AfterMalformed => HandledNormally

\* text that is not JSON arrived on the media namespace while the app ran
\* with a BUFFERING record; the next message, a media GET_STATUS, was
\* answered with BUFFERING
C29_Witness ==
    /\ Len(handled) >= 2
    /\ LET bad == handled[Len(handled) - 1]
       IN  bad.namespace = CASTV2_NS_MEDIA /\ ~bad.data.json
    /\ MediaHandled("GET_STATUS")
    /\ OneMediaStatus /\ Reported = "BUFFERING"
    /\ Len(emitted) = 1

\* a message of an unknown namespace was handled
C29_UnknownNamespace ==
    MalformedHandled /\ last.msg.namespace = "urn:x-cast:other" /\ sent = <<>>

\* a receiver message of an unknown type was handled while the app ran
C29_UnknownType ==
    /\ MalformedHandled /\ last.msg.namespace = CASTV2_NS_RECEIVER
    /\ last.msg.data.json /\ appRunning

-----------------------------------------------------------------------------
(* Reply addressing *)

\* the requests of the four namespaces that are answered
AddressPayloads(ns) ==
    CASE ns = CASTV2_NS_HEARTBEAT  -> { Json("PING") }
      [] ns = CASTV2_NS_DEVICEAUTH -> AuthPayloads
      [] ns = CASTV2_NS_RECEIVER   -> { Json("GET_STATUS") }
      [] ns = CASTV2_NS_MEDIA      ->
            { Json("LOAD") @@ [media |-> Media], Json("GET_STATUS") }

AnsweredNamespaces ==
    { CASTV2_NS_HEARTBEAT, CASTV2_NS_DEVICEAUTH, CASTV2_NS_RECEIVER, CASTV2_NS_MEDIA }

\* either sender writes one of them on any live connection
AddressedRequest ==
    \E c \in clients, src \in Senders, ns \in AnsweredNamespaces :
        \E data \in AddressPayloads(ns) :
            /\ HandleMessage(Message(c, src, ns, data))
            /\ UNCHANGED <<script, deviceCalls>>

\* the state after two connections were accepted (Init, Connect, Connect)
InitBoth ==
    /\ clients = {1, 2} /\ clientCounter = 2
    /\ sockState = <<"open", "open">> /\ listening = TRUE
    /\ lifecycle = [NoLifecycle EXCEPT ![1].connects = 1, ![2].connects = 1]
    /\ server = TRUE /\ sessions = <<NoSender, NoSender>>
    /\ appRunning = FALSE /\ sessionId = 0
    /\ mediaStatus = <<>> /\ mediaRequestId = 0
    /\ timers = <<>> /\ crashed = FALSE
    /\ InitReader /\ InitRegistryIdle
    /\ today = DefaultToday /\ script = <<>>
    /\ sent = <<>> /\ emitted = <<>> /\ handled = <<>>
    /\ keepLog = FALSE /\ loads = <<>>
    /\ last = [op |-> "connect", clientId |-> 2]

NextAddress ==
    \/ AddressedRequest
    \/ TimerFires
    \/ Disconnect

SpecAddress == InitBoth /\ [][NextAddress]_vars

\* the source id the receiver signs a message of a namespace with
SourceOf(ns) == IF ns = CASTV2_NS_MEDIA THEN TransportId ELSE ReceiverId

\* every message of the last step went to one connection and one sender, on
\* one namespace, signed with that namespace's source id
AddressedTo(clientId, senderId, ns) ==
    \A i \in DOMAIN sent :
        /\ sent[i].clientId = clientId
        /\ sent[i].destinationId = senderId
        /\ sent[i].namespace = ns
        /\ sent[i].sourceId = SourceOf(ns)

\* C30: every message the receiver sends goes only to the connection that
\* delivered the triggering request, on the request's namespace, to the
\* request's sourceId, signed 'receiver-0' on the heartbeat, device-auth and
\* receiver namespaces and with the device's transport id on the media
\* namespace; the status pushed after a LOAD is addressed as the LOAD's
\* reply was, and no other connection receives anything.
C30_RepliesAddressedToRequester ==
    /\ last.op = "message" =>
          /\ AddressedTo(last.msg.clientId, last.msg.sourceId, last.msg.namespace)
          /\ AcceptedLoad(last.msg) =>
                timers[Len(timers)] = [clientId |-> last.msg.clientId,
                                       sourceId |-> last.msg.sourceId]
    /\ last.op = "timer" =>
          AddressedTo(last.timer.clientId, last.timer.sourceId, CASTV2_NS_MEDIA)
    /\ last.op \notin {"message", "timer"} => sent = <<>>

\* with two connections open, sender-1 asked for the media status on the
\* second one and was answered there, from the transport id
C30_Witness ==
    /\ clients = {1, 2}
    /\ MediaHandled("GET_STATUS")
    /\ last.msg.clientId = 2 /\ last.msg.sourceId = "sender-1"
    /\ Len(sent) = 1
    /\ sent[1].clientId = 2 /\ sent[1].destinationId = "sender-1"
    /\ sent[1].sourceId = TransportId

\* a device-auth challenge on the second connection was answered there, from
\* receiver-0
C30_AuthAnswered ==
    /\ clients = {1, 2}
    /\ last.op = "message" /\ last.msg.namespace = CASTV2_NS_DEVICEAUTH
    /\ last.msg.clientId = 2 /\ last.msg.sourceId = "sender-1"
    /\ Len(sent) = 1 /\ sent[1].clientId = 2 /\ sent[1].sourceId = ReceiverId

\* the status pushed after a LOAD of sender-1 on the first connection went
\* to that connection while a second one was open
C30_PushToLoader ==
    /\ last.op = "timer" /\ last.timer = [clientId |-> 1, sourceId |-> "sender-1"]
    /\ clients = {1, 2}
    /\ Len(sent) = 1 /\ sent[1].clientId = 1 /\ sent[1].destinationId = "sender-1"

\* the LOAD's connection closed before the push: the other connection, still
\* open, received nothing
C30_PushAfterClose ==
    /\ last.op = "timer" /\ last.timer.clientId = 1
    /\ clients = {2}
    /\ sent = <<>>

-----------------------------------------------------------------------------
(* Discovery and the Bridge's receivers: SonosManager, _addCastDevice,     *)
(* _removeCastDevice.  A receiver is the pair of its speaker and its port. *)

\* receivers created per run, and description fetches in flight per speaker
MaxDevices == 3
MaxFetches == 2

\* desc.roomName || desc.friendlyName || ip, per speaker
NameOf(ip) == IF ip = "192.168.1.11" THEN "Kitchen" ELSE "Office"

\* a conversion that keeps the case
SameCase(str) == str

\* String.prototype.toLowerCase on the names in use
ToLowerCase(str) ==
    CASE str \in {"KITCHEN", "Kitchen", "kitchen"} -> "kitchen"
      [] str \in {"Office", "office"}              -> "office"
      [] str \in {"Bathroom", "bathroom"}          -> "bathroom"
      [] OTHER                                     -> str

\* options.excluded_speakers || []
ExcludedOptions == { {}, {"KITCHEN"}, {"Bathroom", "kitchen"} }

\* SonosManager constructor: (excludedSpeakers || []).map(s => s.toLowerCase())
Excluded(list) == { ToLowerCase(str) : str \in list }

\* this.excludedSpeakers.includes(name.toLowerCase())
IsExcluded(ip) == ToLowerCase(NameOf(ip)) \in orch.excluded

\* Bridge.start() with the speakers net on the network, which answer a scan
\* once or repeatedly, and a list of excluded names in the options:
\* SonosManager.start() has set _running and the first scan is open; the
\* registry file does not exist yet
InitOrchWith(net, repeats, lists) ==
    /\ InitListener /\ InitDevice /\ InitReader /\ InitLog(FALSE)
    /\ today = DefaultToday /\ script = <<>>
    /\ file = MissingFile
    /\ registry = Load(file) /\ loadedFrom = file.kind
    /\ nextIdentity = 0 /\ now = 0
    /\ castDevices = {} /\ tlsOptions = Undefined
    /\ given = EmptyRegistry /\ persisted = EmptyRegistry
    /\ deviceCalls = NoCalls
    /\ \E list \in lists :
          orch = [NoOrch EXCEPT !.running = TRUE, !.scanOpen = TRUE, !.net = net,
                                !.repeats = repeats, !.options = list,
                                !.excluded = Excluded(list)]

\* the identity store is not touched
RegUntouched ==
    UNCHANGED <<registry, file, nextIdentity, now, tlsOptions, given, persisted,
                loadedFrom>>

\* the receivers of a speaker among a set of receivers
Of(ip, ds) == { d \in ds : d.ip = ip }

\* DeviceDiscovery calls back for a response of a speaker: the address is
\* noted as found and, unless the speaker is known, its description is asked
\* for (the await of deviceDescription)
Respond ==
    \E ip \in orch.net :
        /\ orch.scanOpen
        /\ ip \notin orch.speakers =>
              orch.fetches[ip] < (IF orch.repeats THEN MaxFetches ELSE 1)
        /\ orch' = [orch EXCEPT !.found = @ \cup {ip},
                                !.fetches[ip] =
                                    IF ip \in orch.speakers THEN @ ELSE @ + 1]
        /\ last' = [op |-> "respond", ip |-> ip]
        /\ UNCHANGED castDevices
        /\ RegUntouched /\ SessionUntouched

\* an _addCastDevice that reads _nextPort without advancing it
AddBegunSamePort(o, ip, threw) ==
    [o EXCEPT !.allocated = Append(@, o.nextPort),
              !.starting = IF threw THEN @ ELSE @ \cup {[ip |-> ip, port |-> o.nextPort]}]

\* the state of the Bridge after the synchronous part of _addCastDevice for
\* a speaker without an entry in _castDevices: the port is taken, and the
\* receiver's listen is issued unless start() threw before it
AddBegun(o, ip, threw) ==
    [o EXCEPT !.nextPort = @ + 1,
              !.allocated = Append(@, o.nextPort),
              !.starting = IF threw THEN @ ELSE @ \cup {[ip |-> ip, port |-> o.nextPort]}]

\* A description fetch ends.  A failed fetch and an excluded name are logged.
\* Otherwise the speaker is stored and speaker-found is emitted, which runs
\* _addCastDevice up to its await of castDevice.start().
FetchDone ==
    \E ip \in orch.net, ok \in BOOLEAN, outcome \in {"written"}, threw \in BOOLEAN :
        /\ orch.fetches[ip] > 0
        /\ LET o1    == [orch EXCEPT !.fetches[ip] = @ - 1]
               found == ok /\ ~IsExcluded(ip)
               o2    == [o1 EXCEPT !.speakers = @ \cup {ip},
                                   !.announced = @ \cup {ip},
                                   !.gone = @ \ {ip}]
               adds  == found /\ ip \notin DOMAIN orch.devices
           IN  /\ adds => Len(orch.allocated) < MaxDevices
               /\ ~adds => (outcome = "written" /\ ~threw)
               /\ orch' = IF adds THEN AddBegun(o2, ip, threw)
                          ELSE IF found THEN o2 ELSE o1
               /\ IF adds
                  THEN /\ GetOrCreate(ip, outcome)
                       /\ tlsOptions' = StartOptions(Identity(registry'[ip]).certificate)
                       /\ UNCHANGED <<now, loadedFrom>>
                  ELSE RegUntouched
               /\ last' = [op |-> "fetched", ip |-> ip, found |-> found, adds |-> adds]
        /\ UNCHANGED castDevices
        /\ SessionUntouched

\* the listen callback of a receiver: start() returns and _addCastDevice
\* stores the receiver under its speaker
StartDone ==
    \E d \in orch.starting :
        /\ orch' = [orch EXCEPT !.starting = @ \ {d},
                                !.active = @ \cup {d},
                                !.devices = (d.ip :> d.port) @@ @]
        /\ castDevices' = castDevices \cup {d.ip}
        /\ last' = [op |-> "started", ip |-> d.ip, port |-> d.port]
        /\ RegUntouched /\ SessionUntouched

\* the listener reports an error instead (the port is in use): listen's
\* promise is never settled and _addCastDevice stays at its await
StartFails ==
    \E d \in orch.starting :
        /\ orch' = [orch EXCEPT !.starting = @ \ {d}]
        /\ last' = [op |-> "startFailed", ip |-> d.ip, port |-> d.port]
        /\ UNCHANGED castDevices
        /\ RegUntouched /\ SessionUntouched

\* Bridge._removeCastDevice for each of a set of speakers: the receiver
\* stored under the speaker is stopped and forgotten
Removed(o, ips) ==
    [o EXCEPT !.active = { d \in @ : ~(d.ip \in ips /\ d.ip \in DOMAIN o.devices
                                         /\ o.devices[d.ip] = d.port) },
              !.devices = Restrict(@, RegKeys \ ips)]

\* the timeout that ends a scan: every known speaker that did not respond is
\* deleted and speaker-lost is emitted for it
ScanTimeout ==
    /\ orch.scanOpen
    /\ LET lost == IF orch.running THEN orch.speakers \ orch.found ELSE {}
           o1   == [orch EXCEPT !.scanOpen = FALSE, !.found = {},
                                !.speakers = @ \ lost,
                                !.gone = @ \cup lost]
       IN  /\ orch' = Removed(o1, lost)
           /\ castDevices' = castDevices \ lost
           /\ last' = [op |-> "scanned", lost |-> lost]
    /\ RegUntouched /\ SessionUntouched

\* the re-discovery interval fires: the next scan opens
Rescan ==
    /\ orch.running /\ ~orch.scanOpen
    /\ orch' = [orch EXCEPT !.scanOpen = TRUE, !.found = {}]
    /\ last' = [op |-> "rescan"]
    /\ UNCHANGED castDevices
    /\ RegUntouched /\ SessionUntouched

\* SIGTERM or SIGINT: Bridge.stop() stops discovery and every stored
\* receiver and clears _castDevices; then the process exits, which ends
\* everything that was still in flight
Shutdown ==
    /\ orch.running
    /\ orch' = [orch EXCEPT !.running = FALSE, !.scanOpen = FALSE,
                            !.fetches = [k \in RegKeys |-> 0],
                            !.starting = {}, !.active = {},
                            !.devices = [k \in {} |-> 0]]
    /\ castDevices' = {}
    /\ last' = [op |-> "shutdown"]
    /\ RegUntouched /\ SessionUntouched

NextOrch ==
    \/ Respond
    \/ FetchDone
    \/ StartDone
    \/ StartFails
    \/ ScanTimeout
    \/ Rescan
    \/ Shutdown

\* one speaker on the network, answering repeatedly; nothing excluded
SpecOrch == InitOrchWith({"192.168.1.11"}, TRUE, {{}}) /\ [][NextOrch]_vars

\* both speakers on the network, nothing excluded
SpecPorts == InitOrchWith(RegKeys, FALSE, {{}}) /\ [][NextOrch]_vars

\* both speakers on the network, under each list of excluded names
SpecExcluded == InitOrchWith(RegKeys, FALSE, ExcludedOptions) /\ [][NextOrch]_vars

-----------------------------------------------------------------------------
(* Discovery and receivers: claims *)

\* the receivers that listen or are about to
Listeners == orch.active \cup orch.starting

\* C31: the receivers get the ports basePort, basePort+1, basePort+2, ... in
\* the order in which speakers are discovered, and no two receivers that
\* listen share a port, whatever speakers were found and lost and whatever
\* starts failed.
C31_PortsSequentialAndDistinct ==
    /\ \A i \in DOMAIN orch.allocated : orch.allocated[i] = BasePort + (i - 1)
    /\ orch.nextPort = BasePort + Len(orch.allocated)
    /\ \A d \in Listeners : \E i \in DOMAIN orch.allocated : orch.allocated[i] = d.port
    /\ \A d, e \in Listeners : d.port = e.port => d = e

\* the first speaker found listens on basePort; the start of the second
\* one's receiver failed on basePort+1; lost and found again, it listens on
\* basePort+2
C31_Witness ==
    /\ orch.active = { [ip |-> "192.168.1.12", port |-> BasePort],
                       [ip |-> "192.168.1.11", port |-> BasePort + 2] }
    /\ orch.starting = {}

\* both speakers found in the first scan listen on basePort and basePort+1
C31_FirstScan ==
    /\ orch.active = { [ip |-> "192.168.1.11", port |-> BasePort],
                       [ip |-> "192.168.1.12", port |-> BasePort + 1] }
    /\ last.op = "started" /\ orch.gone = {}

\* the spellings of one name
CaseClasses ==
    { {"KITCHEN", "Kitchen", "kitchen"}, {"Office", "office"}, {"Bathroom", "bathroom"} }

\* two names are equal up to the case of their letters
EqualIgnoringCase(a, b) == a = b \/ \E c \in CaseClasses : a \in c /\ b \in c

\* the speaker's name matches an entry of excluded_speakers
MatchesExcluded(ip) == \E str \in orch.options : EqualIgnoringCase(str, NameOf(ip))

\* C32: a speaker whose name equals an entry of excluded_speakers up to case
\* is never in the map of known speakers, is never announced with
\* speaker-found and never gets a receiver, in any scan.
C32_ExcludedNeverBridged ==
    \A ip \in RegKeys :
        MatchesExcluded(ip) =>
            /\ ip \notin orch.speakers
            /\ ip \notin orch.announced
            /\ Of(ip, Listeners) = {}
            /\ ip \notin DOMAIN orch.devices
            /\ ip \notin castDevices

\* with KITCHEN excluded, the description of the speaker named Kitchen was
\* fetched and the speaker left out, in a scan after the one that lost the
\* other speaker
C32_Witness ==
    /\ orch.options = {"KITCHEN"}
    /\ last.op = "fetched" /\ last.ip = "192.168.1.11" /\ ~last.found
    /\ MatchesExcluded("192.168.1.11")
    /\ orch.gone = {"192.168.1.12"}

\* a speaker that is not excluded has a receiver while the other one is
\* excluded
C32_OtherBridged ==
    /\ MatchesExcluded("192.168.1.11")
    /\ orch.active = { [ip |-> "192.168.1.12", port |-> BasePort] }
    /\ "192.168.1.11" \in orch.found

-----------------------------------------------------------------------------
(* Media player state: after STOP, and between overlapping LOADs *)

\* the player was IDLE before the last step, which a media STOP alone brings
\* about, and the last step was not a LOAD that was accepted
IdleBefore ==
    /\ last.op \in {"message", "timer"}
    /\ PlayerStateOf(last.pre.mediaStatus) = "IDLE"
    /\ last.op = "message" => ~AcceptedLoad(last.msg)

\* C33: once a media STOP has put the player in IDLE it stays IDLE until the
\* next accepted LOAD: a PLAY, a PAUSE, a SEEK or the delayed push of an
\* earlier LOAD handled in state IDLE leaves it IDLE.
C33_IdleUntilLoad ==
    (IdleBefore /\ mediaStatus # <<>>) => PlayerStateOf(mediaStatus) = "IDLE"

\* what the handlers do in state IDLE: PLAY, SEEK and the delayed push of an
\* earlier LOAD make the player PLAYING, PAUSE makes it PAUSED; STOP,
\* GET_STATUS and SET_VOLUME leave it IDLE
C33_IdleLeftByCommands ==
    IdleBefore =>
        /\ (MediaHandled("PLAY") \/ MediaHandled("SEEK") \/ last.op = "timer")
              => PlayerStateOf(mediaStatus) = "PLAYING"
        /\ MediaHandled("PAUSE") => PlayerStateOf(mediaStatus) = "PAUSED"
        /\ (MediaHandled("STOP") \/ MediaHandled("GET_STATUS")
              \/ MediaHandled("SET_VOLUME"))
              => PlayerStateOf(mediaStatus) = "IDLE"

\* the delayed push of a LOAD fired after a STOP and made the IDLE player
\* PLAYING
C33_Witness ==
    /\ last.op = "timer"
    /\ PlayerStateOf(last.pre.mediaStatus) = "IDLE"
    /\ PlayerStateOf(mediaStatus) = "PLAYING"
    /\ Len(sent) = 1 /\ Reported = "PLAYING"

\* a PLAY handled in state IDLE made the player PLAYING
C33_PlayAfterStop ==
    /\ MediaHandled("PLAY")
    /\ PlayerStateOf(last.pre.mediaStatus) = "IDLE"
    /\ PlayerStateOf(mediaStatus) = "PLAYING"

\* the mediaSessionId of the LOAD whose delayed push fired in the last step:
\* every accepted LOAD schedules one push and the pushes fire in the order of
\* their LOADs
FiredSession == loads[Len(loads) - Len(timers)]

\* the last step fired the push of a LOAD that is not the one of the current
\* record
ForeignPush ==
    /\ last.op = "timer"
    /\ last.pre.mediaStatus # <<>>
    /\ last.pre.mediaStatus[1].mediaSessionId # FiredSession

\* C34: the delayed PLAYING transition applies only to the media session of
\* the LOAD that scheduled it: when the push of an earlier LOAD fires, the
\* record of a later LOAD keeps its state (BUFFERING until its own push).
C34_PushMovesOwnSessionOnly ==
    ForeignPush => mediaStatus = last.pre.mediaStatus

\* what the push does: the record that exists when it fires, of whatever
\* LOAD, becomes PLAYING and is what the push reports
C34_PushMovesCurrentRecord ==
    (last.op = "timer" /\ last.pre.mediaStatus # <<>>) =>
        /\ mediaStatus = <<[last.pre.mediaStatus[1] EXCEPT !.playerState = "PLAYING"]>>
        /\ last.live => (Len(sent) = 1 /\ sent[1].payload.status = mediaStatus)

\* the push of the first LOAD fired while the record of the second LOAD was
\* BUFFERING and its own push was pending: the second session is PLAYING
C34_Witness ==
    /\ ForeignPush
    /\ FiredSession = 1
    /\ last.pre.mediaStatus[1].mediaSessionId = 2
    /\ PlayerStateOf(last.pre.mediaStatus) = "BUFFERING"
    /\ PlayerStateOf(mediaStatus) = "PLAYING"
    /\ Len(timers) = 1

\* C35: a media status record exists only while the app is running: a LOAD
\* received with no app launched, or after a receiver STOP, creates none.
C35_RecordOnlyWhileAppRuns == mediaStatus # <<>> => appRunning

\* what the handlers do: a LOAD with a contentId creates the record whether
\* or not the app runs and leaves appRunning as it was; LAUNCH and the
\* receiver STOP are the steps that remove the record
C35_LoadIgnoresAppState ==
    /\ (last.op = "message" /\ AcceptedLoad(last.msg)) =>
          /\ mediaStatus # <<>>
          /\ mediaStatus[1].mediaSessionId = last.pre.mediaRequestId + 1
          /\ appRunning = last.pre.appRunning
    /\ (Handled(CASTV2_NS_RECEIVER, "LAUNCH") \/ Handled(CASTV2_NS_RECEIVER, "STOP"))
          => mediaStatus = <<>>
    /\ (last.op = "message" /\ last.pre.mediaStatus # <<>> /\ mediaStatus = <<>>) =>
          (Handled(CASTV2_NS_RECEIVER, "LAUNCH") \/ Handled(CASTV2_NS_RECEIVER, "STOP"))

\* a LOAD was accepted after a receiver STOP: the record exists and no app
\* runs
C35_Witness ==
    /\ last.op = "message" /\ AcceptedLoad(last.msg)
    /\ sessionId > 0 /\ ~last.pre.appRunning
    /\ ~appRunning /\ PlayerStateOf(mediaStatus) = "BUFFERING"

\* a LOAD was accepted before any LAUNCH
C35_LoadBeforeLaunch ==
    /\ last.op = "message" /\ AcceptedLoad(last.msg)
    /\ sessionId = 0 /\ ~appRunning /\ mediaStatus # <<>>

-----------------------------------------------------------------------------
(* Receivers per speaker: claims *)

\* the receiver stored in _castDevices under a speaker
Stored(ip) == [ip |-> ip, port |-> orch.devices[ip]]

\* C36: at most one receiver is started and not stopped per speaker address,
\* whatever the interleaving of discovery responses, speaker-found events and
\* listener starts, also when a speaker answers a scan again while its
\* description fetch or its receiver's start is in flight.
C36_OneReceiverPerSpeaker ==
    \A ip \in RegKeys : Cardinality(Of(ip, orch.active)) <= 1

\* what _addCastDevice guarantees: _castDevices holds one receiver per
\* speaker, which is started, and a receiver is created only for a speaker
\* that has no entry at that moment; a start that returns stores its receiver
\* over whatever entry exists
C36_OneStoredPerSpeaker ==
    /\ castDevices = DOMAIN orch.devices
    /\ \A ip \in DOMAIN orch.devices : Stored(ip) \in orch.active
    /\ (last.op = "fetched" /\ last.adds) => last.ip \notin DOMAIN orch.devices
    /\ last.op = "started" => Stored(last.ip).port = last.port

\* the speaker answered twice before its description arrived; the second
\* speaker-found came while the first receiver's start was in flight: two
\* receivers of the speaker are started, the first one no longer stored
C36_Witness ==
    /\ orch.active = { [ip |-> "192.168.1.11", port |-> BasePort],
                       [ip |-> "192.168.1.11", port |-> BasePort + 1] }
    /\ orch.devices = ("192.168.1.11" :> BasePort + 1)
    /\ last.op = "started"

\* no call of _addCastDevice for the speaker is in flight
Settled(ip) == Of(ip, orch.starting) = {} /\ orch.fetches[ip] = 0

\* C37: once speaker-lost has been handled for a speaker, or the bridge has
\* been stopped, and no _addCastDevice is in flight, no receiver of that
\* speaker is started, also when the removal came while the receiver's
\* start was in flight.
C37_NoReceiverAfterRemoval ==
    /\ \A ip \in orch.gone : Settled(ip) => Of(ip, orch.active) = {}
    /\ ~orch.running => orch.active = {}

\* what the removal does: the receiver stored under a lost speaker at that
\* moment is stopped and its entry deleted; a start that returns afterwards
\* stores and keeps its receiver; the shutdown leaves nothing
C37_RemovalStopsStoredReceiver ==
    /\ last.op = "scanned" =>
          \A ip \in last.lost :
              /\ ip \notin DOMAIN orch.devices
              /\ ip \notin orch.speakers
              /\ ip \in orch.gone
    /\ last.op = "started" =>
          /\ [ip |-> last.ip, port |-> last.port] \in orch.active
          /\ last.ip \in DOMAIN orch.devices
    /\ ~orch.running => (orch.active = {} /\ orch.starting = {})

\* speaker-lost was handled while the only receiver's start was in flight;
\* the start has returned: the receiver of the lost speaker is started and
\* stored, and nothing is in flight
C37_Witness ==
    /\ last.op = "started"
    /\ "192.168.1.11" \in orch.gone
    /\ Settled("192.168.1.11")
    /\ orch.active = { [ip |-> "192.168.1.11", port |-> BasePort] }
    /\ orch.speakers = {}

\* a lost speaker whose receiver was stored has no receiver
C37_StoredRemoved ==
    /\ last.op = "scanned" /\ last.lost = {"192.168.1.11"}
    /\ Len(orch.allocated) = 1 /\ orch.active = {} /\ orch.starting = {}

-----------------------------------------------------------------------------
(* Bridge: the order of the calls on the speaker.  deviceCalls.calls is the  *)
(* run's log of the calls the Bridge initiated and of the settlements of    *)
(* setAVTransportURI, in the order in which they happened.                  *)

\* LOAD with autoplay absent or false, and the commands that follow it
OrderPayloads ==
    { Json("LOAD") @@ [media |-> Media],
      Json("LOAD") @@ [media |-> Media, autoplay |-> FALSE],
      Json("PLAY"), Json("PAUSE"), Json("STOP") }

\* the call a handler of the Bridge initiates before its first await, for
\* the n-th intent of the run
FirstCall(evt, n) ==
    CASE evt.type = "load"  ->
            [op |-> "setAVTransportURI", intent |-> n, autoplay |-> evt.autoplay]
      [] evt.type = "play"  -> [op |-> "play", intent |-> n]
      [] evt.type = "pause" -> [op |-> "pause", intent |-> n]
      [] evt.type = "stop"  -> [op |-> "stop", intent |-> n]

\* _onLoad after its setAVTransportURI was rejected: play(uri) if autoplay
Fallback(c) ==
    IF c.autoplay THEN <<[op |-> "play(uri)", intent |-> c.intent]>> ELSE <<>>

\* the log with the calls of the intents emitted by the step added
WithFirstCalls(log, before, after) ==
    log \o [i \in 1..(Len(after) - Len(before)) |->
               FirstCall(after[Len(before) + i], Len(before) + i)]

\* the sender writes a media message; the intent it emits runs its handler
\* of the Bridge up to the first await
OrderedRequest ==
    /\ Len(handled) < MaxTrace
    /\ \E data \in OrderPayloads :
          /\ HandleMessage(Message(1, "sender-0", CASTV2_NS_MEDIA, data))
          /\ UNCHANGED script
          /\ deviceCalls' =
                [deviceCalls EXCEPT !.calls = WithFirstCalls(@, emitted, emitted')]

\* the setAVTransportURI calls that have not been settled
InFlight ==
    { i \in DOMAIN deviceCalls.calls :
        /\ deviceCalls.calls[i].op = "setAVTransportURI"
        /\ \A j \in DOMAIN deviceCalls.calls :
              ~(/\ deviceCalls.calls[j].op \in {"resolved", "rejected"}
                /\ deviceCalls.calls[j].intent = deviceCalls.calls[i].intent) }

\* the speaker answers a setAVTransportURI: _onLoad goes on after its await,
\* into the catch and its fallback if the call was rejected
UriSettles ==
    \E i \in InFlight, ok \in BOOLEAN :
        LET c == deviceCalls.calls[i]
        IN  /\ deviceCalls' =
                  [deviceCalls EXCEPT !.calls =
                      IF ok THEN Append(@, [op |-> "resolved", intent |-> c.intent])
                      ELSE Append(@, [op |-> "rejected", intent |-> c.intent])
                               \o Fallback(c)]
            /\ last' = [op |-> "settled", intent |-> c.intent, ok |-> ok]
            /\ sent' = <<>>
            /\ UNCHANGED <<listenerVars, frameVars, deviceVars, today, regVars,
                           emitted, handled, script, keepLog, loads, lifecycle>>

NextOrder ==
    \/ OrderedRequest
    \/ UriSettles
    \/ TimerFires

SpecOrder == InitAccepted(TRUE) /\ [][NextOrder]_vars

\* the calls a log holds, without the settlements
Starts == { "setAVTransportURI", "play(uri)" }
Halts  == { "stop", "pause" }

\* C38: if a stop or pause intent is emitted after a load intent, no call
\* that starts playback for that load (setAVTransportURI or the fallback
\* play(uri)) is initiated on the speaker after the stop or pause call.
C38_NoStartAfterLaterHalt ==
    \A j, k \in DOMAIN deviceCalls.calls :
        LET h == deviceCalls.calls[j]
            c == deviceCalls.calls[k]
        IN  (h.op \in Halts /\ c.op \in Starts /\ c.intent < h.intent) => k < j

\* what the handlers guarantee: the first calls of the handlers are made in
\* the order of the intents, each in the step that emits its intent; the
\* fallback play(uri) is made once, when the rejection arrives, for a load
\* with autoplay, wherever the log has got to by then
C38_FirstCallsInIntentOrder ==
    LET calls == deviceCalls.calls
        first == SelectSeq(calls, LAMBDA c : c.op \notin {"resolved", "rejected", "play(uri)"})
    IN  /\ Len(first) = Len(emitted)
        /\ \A n \in DOMAIN first :
              /\ first[n].intent = n
              /\ first[n].op = IF emitted[n].type = "load" THEN "setAVTransportURI"
                               ELSE emitted[n].type
        /\ \A k \in DOMAIN calls :
              calls[k].op = "play(uri)" =>
                  /\ k > 1 /\ calls[k - 1] = [op |-> "rejected", intent |-> calls[k].intent]
                  /\ emitted[calls[k].intent].autoplay
        /\ \A k \in DOMAIN calls :
              (calls[k].op = "rejected" /\ emitted[calls[k].intent].autoplay) =>
                  /\ k < Len(calls)
                  /\ calls[k + 1] = [op |-> "play(uri)", intent |-> calls[k].intent]

\* LOAD, then STOP, then the speaker rejects the load's setAVTransportURI:
\* play(uri) is called after stop
C38_Witness ==
    /\ Len(deviceCalls.calls) = 4
    /\ deviceCalls.calls[1].op = "setAVTransportURI"
    /\ deviceCalls.calls[2] = [op |-> "stop", intent |-> 2]
    /\ deviceCalls.calls[3] = [op |-> "rejected", intent |-> 1]
    /\ deviceCalls.calls[4] = [op |-> "play(uri)", intent |-> 1]

\* the rejection arrived before the stop: the fallback precedes it
C38_FallbackBeforeHalt ==
    /\ Len(deviceCalls.calls) = 4
    /\ deviceCalls.calls[3] = [op |-> "play(uri)", intent |-> 1]
    /\ deviceCalls.calls[4] = [op |-> "stop", intent |-> 2]

-----------------------------------------------------------------------------
(* Bridge: the volume passed to the speaker.  A Cast volume level is kept   *)
(* in thousandths: 500 is 0.5, 1500 is 1.5.                                *)

\* levels a sender may put in SET_VOLUME: inside 0.0 .. 1.0, at the rounding
\* boundaries, below and above
VolumeLevels == { -200, -5, -4, 0, 4, 5, 500, 994, 995, 1000, 1004, 1005, 1500 }

\* the volume objects of SET_VOLUME: a level, a mute flag, or both
VolumeObjects ==
    { <<[level |-> l, muted |-> FALSE]>> : l \in VolumeLevels }
    \cup { <<[level |-> l]>> : l \in VolumeLevels }
    \cup { <<[muted |-> TRUE]>> }

\* Math.round(evt.level * 100): the nearest integer, halves upwards
SonosVolume(level) == (level + 5) \div 10

\* Bridge._onVolume: setVolume with the converted level if there is a level,
\* then setMuted if there is a mute flag and setVolume did not fail
OnVolumeCalls(evt, setVolumeFails) ==
    [calls |->
        (IF "level" \in DOMAIN evt
         THEN <<[op |-> "setVolume", value |-> SonosVolume(evt.level)]>> ELSE <<>>)
        \o (IF "muted" \in DOMAIN evt /\ ~("level" \in DOMAIN evt /\ setVolumeFails)
            THEN <<[op |-> "setMuted", value |-> evt.muted]>> ELSE <<>>),
     rejected |-> FALSE]

\* the sender sets the volume on either namespace, or launches the app or
\* loads media; the Bridge forwards the intent
VolumeRequest ==
    \E ns \in {CASTV2_NS_RECEIVER, CASTV2_NS_MEDIA}, fails \in BOOLEAN :
        \E data \in { Json("SET_VOLUME") @@ [volume |-> v] : v \in VolumeObjects }
                    \cup (IF ns = CASTV2_NS_RECEIVER
                          THEN { Json("LAUNCH") @@ [appId |-> "YouTube"] }
                          ELSE { Json("LOAD") @@ [media |-> Media] }) :
            /\ HandleMessage(Message(1, "sender-0", ns, data))
            /\ UNCHANGED script
            /\ deviceCalls' =
                  IF data.type = "SET_VOLUME"
                  THEN OnVolumeCalls(emitted'[1],
                                     fails /\ "level" \in DOMAIN data.volume[1])
                  ELSE IF emitted' = <<>> THEN NoCalls
                  ELSE OnIntent(emitted'[1], IF fails THEN OpsOf(emitted'[1]) ELSE {})

NextVolume ==
    \/ VolumeRequest
    \/ TimerFires

SpecVolume == InitConnected /\ [][NextVolume]_vars

\* the last step handled a SET_VOLUME that carries a level
LevelSet ==
    /\ last.op = "message"
    /\ last.msg.data.type = "SET_VOLUME"
    /\ "level" \in DOMAIN last.msg.data.volume[1]

\* the level of that SET_VOLUME and the argument of the setVolume call
LevelSent == last.msg.data.volume[1].level
VolumePassed == deviceCalls.calls[1].value

\* C39: setVolume is only ever called with an integer in 0..100: for every
\* volume intent with a level the Bridge calls setVolume with
\* round(level * 100), and that value lies in 0..100 whatever the level.
C39_VolumeWithinRange ==
    LevelSet =>
        /\ deviceCalls.calls[1].op = "setVolume"
        /\ VolumePassed \in 0..100

\* what _onVolume passes: the integer nearest to level * 100, halves
\* upwards, which lies in 0..100 exactly for the levels from -0.005 up to,
\* not including, 1.005
C39_VolumeIsRoundedLevel ==
    LevelSet =>
        /\ deviceCalls.calls[1].op = "setVolume"
        /\ 10 * VolumePassed - 5 <= LevelSent
        /\ LevelSent < 10 * VolumePassed + 5
        /\ VolumePassed \in 0..100 <=> (-5 <= LevelSent /\ LevelSent < 1005)

\* a SET_VOLUME with level 1.5 made the Bridge call setVolume(150)
C39_Witness ==
    /\ LevelSet /\ LevelSent = 1500
    /\ VolumePassed = 150
    /\ emitted # <<>> /\ emitted[1].type = "volume"

\* a level below zero is passed on as a negative volume
C39_Negative == LevelSet /\ LevelSent = -200 /\ VolumePassed = -20

\* a level inside 0.0 .. 1.0 is passed on within 0..100
C39_Inside == LevelSet /\ LevelSent = 995 /\ VolumePassed = 100

-----------------------------------------------------------------------------
(* Frame codec: the reader's state between chunks *)

\* the bytes received so far that follow the last frame that has arrived
\* whole
Unconsumed ==
    LET k == CompleteFrames(stream, received)
    IN  Drop(Take(WireOf(stream), received), Len(WireOf(Take(stream, k))))

\* C40: whenever _onData has returned, either no length is pending and the
\* buffer holds fewer than 4 bytes, or a length L is pending and the buffer
\* holds fewer than L bytes; the buffer is exactly the received bytes that no
\* complete prefix and no complete body has consumed, and every frame that
\* has arrived whole has been taken out of it.
C40_ReaderStateBetweenChunks ==
    LET k == CompleteFrames(stream, received)
    IN  /\ Len(delivered) + warnings = k
        /\ IF expectedLength = NoLength
           THEN /\ Len(buffer) < 4
                /\ buffer = Unconsumed
           ELSE /\ Len(buffer) < expectedLength
                /\ Len(Unconsumed) >= 4
                /\ expectedLength = Len(stream[k + 1].body)
                /\ buffer = Drop(Unconsumed, 4)

\* a chunk brought the end of one frame, the whole prefix of the next and a
\* part of its body: one more message is delivered, the length is pending
\* and the buffer holds the part of the body
C40_Witness ==
    /\ last.op = "data" /\ last.frames = 1
    /\ expectedLength # NoLength
    /\ buffer # <<>> /\ Len(buffer) < expectedLength
    /\ Len(delivered) + warnings = 1

\* a chunk ended inside a length prefix
C40_PartialPrefix ==
    /\ last.op = "data" /\ last.frames >= 1
    /\ expectedLength = NoLength /\ Len(buffer) \in 1..3

=============================================================================
